---- MODULE Spec2Model ----
(***************************************************************************)
(* Hevy-Coach (src/hevy_stats.py): the progressive-overload decision       *)
(* engine.  The report run (print_comprehensive_report) takes the filtered *)
(* DataFrame df and calls, in this order, get_exercise_progression,        *)
(* get_last_session_only, detect_plateaus_and_periodization and            *)
(* analyze_exercise_evolution.                                             *)
(*                                                                         *)
(* Numbers.  Every Python float is modelled as an exact rational <<n, d>>  *)
(* in lowest terms with d > 0 (kilograms, RPE points, percentages).  An    *)
(* optional value (None / NaN) is the empty tuple None, a present value v  *)
(* is Some(v) = <<v>>.  reps, dates and set indices are integers.          *)
(***************************************************************************)
EXTENDS Integers, Sequences, FiniteSets, TLC

VARIABLES df, pc, progression_data, last_session, periodization,
          exercise_evolution,
          infile, now, outcome,
          stats,
          config, performed, next_workout_info,
          server, page, all_events, requested

\* the input file, the clock and the way the process ended
ingest_vars == <<infile, now, outcome>>
\* the routine configuration, the cycle day the user performed last and the
\* prediction made from the log
cycle_vars == <<config, performed, next_workout_info>>
\* the API server, the page counter, the events collected and the pages
\* requested so far
fetch_vars == <<server, page, all_events, requested>>

vars == <<df, pc, progression_data, last_session, periodization,
          exercise_evolution, ingest_vars, stats, cycle_vars, fetch_vars>>

(***************************************************************************)
(* Rational arithmetic                                                     *)
(***************************************************************************)
RECURSIVE GCD(_, _)
GCD(a, b) == IF b = 0 THEN a ELSE GCD(b, a % b)

Abs(i) == IF i < 0 THEN -i ELSE i

Rat(n, d) == LET g == GCD(Abs(n), d) IN <<n \div g, d \div g>>

I(i) == <<i, 1>>

RAdd(a, b) == Rat(a[1] * b[2] + b[1] * a[2], a[2] * b[2])
RSub(a, b) == Rat(a[1] * b[2] - b[1] * a[2], a[2] * b[2])
RMul(a, b) == Rat(a[1] * b[1], a[2] * b[2])
RDiv(a, b) == IF b[1] > 0 THEN Rat(a[1] * b[2], a[2] * b[1])
                          ELSE Rat(-(a[1] * b[2]), a[2] * (-b[1]))
RLt(a, b) == a[1] * b[2] < b[1] * a[2]
RLe(a, b) == a[1] * b[2] <= b[1] * a[2]
RGt(a, b) == RLt(b, a)
RGe(a, b) == RLe(b, a)
RAbs(a) == <<Abs(a[1]), a[2]>>
RMax(a, b) == IF RLt(a, b) THEN b ELSE a

\* Python round(x) and the rounding of f"{x:.1f}": nearest, ties to even.
RoundHalfEven(a) ==
    LET fl == a[1] \div a[2]
        r2 == 2 * (a[1] - fl * a[2])
    IN  IF r2 < a[2] THEN fl
        ELSE IF r2 > a[2] THEN fl + 1
        ELSE IF fl % 2 = 0 THEN fl ELSE fl + 1

\* f"{x:.1f}": the number of tenths that is printed.
Format1f(a) == RoundHalfEven(RMul(a, I(10)))

None == <<>>
Some(v) == <<v>>
IsNone(o) == o = <<>>
Val(o) == o[1]

RECURSIVE RSum(_)
RSum(s) == IF s = <<>> THEN I(0) ELSE RAdd(s[1], RSum(Tail(s)))

RECURSIVE RMaxSeq(_)
RMaxSeq(s) == IF Len(s) = 1 THEN s[1] ELSE RMax(s[1], RMaxSeq(Tail(s)))

RMinSet(S) == CHOOSE x \in S : \A y \in S : RLe(x, y)

\* sorted(set(xs)) for a list of rationals
RECURSIVE SortedSet(_)
SortedSet(S) == IF S = {} THEN <<>>
                ELSE LET m == RMinSet(S) IN <<m>> \o SortedSet(S \ {m})

Range(s) == {s[i] : i \in DOMAIN s}

\* Series.mean(): the arithmetic mean of a non-empty list
RMean(s) == RDiv(RSum(s), I(Len(s)))

MaxInt(S) == CHOOSE x \in S : \A y \in S : y <= x

(***************************************************************************)
(* Configuration: rep_rules.REP_RANGE and the exercise names of the model  *)
(***************************************************************************)
\* The exercise names used, in Python string order (the order in which
\* groupby("exercise") yields its groups).
ExerciseNames ==
    <<"Barbell Row", "Bench Press (Barbell)", "Cable Crunch",
      "Chest Dip (Assisted)", "Face Pull", "Pull Up", "Romanian Deadlift",
      "Squat (Barbell)", "T-Bar Row", "Upright Row">>

NameIndex(name) == CHOOSE i \in DOMAIN ExerciseNames : ExerciseNames[i] = name

\* The characters of each name (TLC strings are atomic).  The emoji that end
\* the routine titles of routine_config.py are written {flexed biceps} and
\* {leg}, one character each.
Chars(name) ==
    CASE name = "Barbell Row" ->
           <<"B", "a", "r", "b", "e", "l", "l", " ", "R", "o", "w">>
      [] name = "Bench Press (Barbell)" ->
           <<"B", "e", "n", "c", "h", " ", "P", "r", "e", "s", "s", " ", "(",
             "B", "a", "r", "b", "e", "l", "l", ")">>
      [] name = "Cable Crunch" ->
           <<"C", "a", "b", "l", "e", " ", "C", "r", "u", "n", "c", "h">>
      [] name = "Chest Dip (Assisted)" ->
           <<"C", "h", "e", "s", "t", " ", "D", "i", "p", " ", "(", "A", "s",
             "s", "i", "s", "t", "e", "d", ")">>
      [] name = "Face Pull" ->
           <<"F", "a", "c", "e", " ", "P", "u", "l", "l">>
      [] name = "Pull Up" ->
           <<"P", "u", "l", "l", " ", "U", "p">>
      [] name = "Romanian Deadlift" ->
           <<"R", "o", "m", "a", "n", "i", "a", "n", " ", "D", "e", "a", "d",
             "l", "i", "f", "t">>
      [] name = "Squat (Barbell)" ->
           <<"S", "q", "u", "a", "t", " ", "(", "B", "a", "r", "b", "e", "l",
             "l", ")">>
      [] name = "T-Bar Row" ->
           <<"T", "-", "B", "a", "r", " ", "R", "o", "w">>
      [] name = "Upright Row" ->
           <<"U", "p", "r", "i", "g", "h", "t", " ", "R", "o", "w">>
      [] name = "TREADMILL" ->
           <<"T", "R", "E", "A", "D", "M", "I", "L", "L">>
      [] name = "Treadmill" ->
           <<"T", "r", "e", "a", "d", "m", "i", "l", "l">>
      [] name = "Treadmill Walk" ->
           <<"T", "r", "e", "a", "d", "m", "i", "l", "l", " ", "W", "a", "l",
             "k">>
      [] name = "Day 1 - Upper (Push) {flexed biceps}" ->
           <<"D", "a", "y", " ", "1", " ", "-", " ", "U", "p", "p", "e", "r",
             " ", "(", "P", "u", "s", "h", ")", " ", "{flexed biceps}">>
      [] name = "Day 2 - Lower (Hamstring) {leg}" ->
           <<"D", "a", "y", " ", "2", " ", "-", " ", "L", "o", "w", "e", "r",
             " ", "(", "H", "a", "m", "s", "t", "r", "i", "n", "g", ")", " ",
             "{leg}">>
      [] name = "Day 3 - Rest / Treadmill" ->
           <<"D", "a", "y", " ", "3", " ", "-", " ", "R", "e", "s", "t", " ",
             "/", " ", "T", "r", "e", "a", "d", "m", "i", "l", "l">>
      [] name = "Day 4 - Upper (Pull) {flexed biceps}" ->
           <<"D", "a", "y", " ", "4", " ", "-", " ", "U", "p", "p", "e", "r",
             " ", "(", "P", "u", "l", "l", ")", " ", "{flexed biceps}">>
      [] name = "Day 5 - Lower (Quad) {leg}" ->
           <<"D", "a", "y", " ", "5", " ", "-", " ", "L", "o", "w", "e", "r",
             " ", "(", "Q", "u", "a", "d", ")", " ", "{leg}">>
      [] name = "Day 6 - Rest" ->
           <<"D", "a", "y", " ", "6", " ", "-", " ", "R", "e", "s", "t">>
      [] name = "Day 3 - Upper (Pull) {flexed biceps}" ->
           <<"D", "a", "y", " ", "3", " ", "-", " ", "U", "p", "p", "e", "r",
             " ", "(", "P", "u", "l", "l", ")", " ", "{flexed biceps}">>
      [] name = "Day 4 - Lower (Quad) {leg}" ->
           <<"D", "a", "y", " ", "4", " ", "-", " ", "L", "o", "w", "e", "r",
             " ", "(", "Q", "u", "a", "d", ")", " ", "{leg}">>
      [] name = "Rest" ->
           <<"R", "e", "s", "t">>
      [] name = "Cardio" ->
           <<"C", "a", "r", "d", "i", "o">>
      [] name = "Push Day" ->
           <<"P", "u", "s", "h", " ", "D", "a", "y">>
      [] name = "Pull Day" ->
           <<"P", "u", "l", "l", " ", "D", "a", "y">>
      [] name = "Leg Day" ->
           <<"L", "e", "g", " ", "D", "a", "y">>
      [] name = "Workout" ->
           <<"W", "o", "r", "k", "o", "u", "t">>

UpperLetters ==
    <<"A", "B", "C", "D", "E", "F", "G", "H", "I", "J", "K", "L", "M", "N",
      "O", "P", "Q", "R", "S", "T", "U", "V", "W", "X", "Y", "Z">>
LowerLetters ==
    <<"a", "b", "c", "d", "e", "f", "g", "h", "i", "j", "k", "l", "m", "n",
      "o", "p", "q", "r", "s", "t", "u", "v", "w", "x", "y", "z">>

\* str.lower()
LowerChar(c) == IF \E i \in 1..26 : UpperLetters[i] = c
                THEN LowerLetters[CHOOSE i \in 1..26 : UpperLetters[i] = c]
                ELSE c
Lower(cs) == [i \in DOMAIN cs |-> LowerChar(cs[i])]

\* the Python test "sub in s"
Contains(s, sub) ==
    \E k \in 0..(Len(s) - Len(sub)) : \A j \in 1..Len(sub) : s[k + j] = sub[j]

assisted_keywords ==
    <<<<"a", "s", "s", "i", "s", "t", "e", "d">>,
      <<"a", "s", "s", "i", "s", "t">>,
      <<"b", "a", "n", "d", " ", "a", "s", "s", "i", "s", "t", "e", "d">>,
      <<"m", "a", "c", "h", "i", "n", "e", " ", "a", "s", "s", "i", "s", "t",
        "e", "d">>,
      <<"c", "o", "u", "n", "t", "e", "r", "w", "e", "i", "g", "h", "t">>,
      <<"c", "o", "u", "n", "t", "e", "r", " ", "w", "e", "i", "g", "h", "t">>,
      <<"h", "e", "l", "p">>,
      <<"s", "u", "p", "p", "o", "r", "t">>>>

is_assisted_exercise(exercise_name) ==
    LET exercise_lower == Lower(Chars(exercise_name))
    IN  \E k \in DOMAIN assisted_keywords :
            Contains(exercise_lower, assisted_keywords[k])

\* rep_rules.REP_RANGE restricted to the names of the model; "Cable Crunch"
\* is not a key of the table.
RepRangeKeys ==
    {"Barbell Row", "Bench Press (Barbell)", "Chest Dip (Assisted)",
     "Face Pull", "Pull Up", "Romanian Deadlift", "Squat (Barbell)",
     "T-Bar Row", "Upright Row"}

REP_RANGE ==
    [e \in RepRangeKeys |->
        CASE e = "Barbell Row" -> <<8, 10>>
          [] e = "Bench Press (Barbell)" -> <<6, 10>>
          [] e = "Chest Dip (Assisted)" -> <<8, 12>>
          [] e = "Face Pull" -> <<15, 20>>
          [] e = "Pull Up" -> <<6, 10>>
          [] e = "Romanian Deadlift" -> <<8, 12>>
          [] e = "Squat (Barbell)" -> <<6, 10>>
          [] e = "T-Bar Row" -> <<8, 12>>
          [] e = "Upright Row" -> <<10, 12>>]

RepRangeGet_default(exercise) ==
    IF exercise \in DOMAIN REP_RANGE THEN Some(REP_RANGE[exercise])
    ELSE Some(<<8, 12>>)

\* REP_RANGE.get(exercise, None)
RepRangeGet(exercise) ==
    IF exercise \in DOMAIN REP_RANGE THEN Some(REP_RANGE[exercise]) ELSE None

(***************************************************************************)
(* DataFrame helpers.  df is the list of rows in the order events_to_df    *)
(* leaves them: sorted by (date, exercise, set_index).  A row is           *)
(* [date, workout, exercise, weight, reps, rpe, set_index].                *)
(***************************************************************************)
Column(rows, f) == [i \in DOMAIN rows |-> rows[i][f]]

\* df[df[f] == v]
WhereEq(rows, f, v) == SelectSeq(rows, LAMBDA r : r[f] = v)

\* Series.mean() of the rpe column: NaN entries are skipped, NaN when none
DefinedRpes(rows) ==
    LET withRpe == SelectSeq(rows, LAMBDA r : ~IsNone(r.rpe))
    IN  [i \in DOMAIN withRpe |-> Val(withRpe[i].rpe)]

RpeMean(rows) ==
    IF DefinedRpes(rows) = <<>> THEN None ELSE Some(RMean(DefinedRpes(rows)))

\* sorted(xs, reverse=True) of a set of integer dates
RECURSIVE SortedDesc(_)
SortedDesc(S) == IF S = {} THEN <<>>
                 ELSE LET m == MaxInt(S) IN <<m>> \o SortedDesc(S \ {m})

\* the distinct exercises of rows, in name order
RECURSIVE SortedNames(_)
SortedNames(S) ==
    IF S = {} THEN <<>>
    ELSE LET m == CHOOSE x \in S : \A y \in S : NameIndex(x) <= NameIndex(y)
         IN  <<m>> \o SortedNames(S \ {m})

\* session_dates[:n] and similar slices
Take(s, n) == IF Len(s) <= n THEN s ELSE SubSeq(s, 1, n)

\* the concatenation of a list of lists
RECURSIVE Concat(_)
Concat(ss) == IF ss = <<>> THEN <<>> ELSE ss[1] \o Concat(Tail(ss))

(***************************************************************************)
(* get_realistic_weight_recommendation                                     *)
(***************************************************************************)
DefaultIncrement == <<5, 2>>      \* increment = 2.5
MaxCommonIncrement == <<10, 1>>   \* d <= 10

\* The increment inferred from the weights of the session's sets.
InferIncrement(sets_data) ==
    LET positive == SelectSeq(sets_data, LAMBDA s : RGt(s.weight, I(0)))
        weights_used == [i \in DOMAIN positive |-> positive[i].weight]
        unique_weights == SortedSet(Range(weights_used))
        diffs == [i \in 1..(Len(unique_weights) - 1) |->
                     RSub(unique_weights[i + 1], unique_weights[i])]
        common_increments ==
            SelectSeq(diffs, LAMBDA d : RGt(d, I(0)) /\ RLe(d, MaxCommonIncrement))
    IN  IF Len(weights_used) >= 2 /\ Len(unique_weights) >= 2
           /\ common_increments # <<>>
        THEN RMinSet(Range(common_increments))
        ELSE DefaultIncrement

RoundRealistic_floor(ideal_weight, increment) ==
    IF RGe(increment, <<5, 2>>)
    THEN RMul(I(RDiv(ideal_weight, <<5, 2>>)[1] \div RDiv(ideal_weight, <<5, 2>>)[2]),
              <<5, 2>>)
    ELSE I(ideal_weight[1] \div ideal_weight[2])

\* "Round to nearest realistic increment"
RoundRealistic(ideal_weight, increment) ==
    IF RGe(increment, <<5, 2>>)
    THEN RMul(I(RoundHalfEven(RDiv(ideal_weight, <<5, 2>>))), <<5, 2>>)
    ELSE I(RoundHalfEven(ideal_weight))

get_realistic_weight_recommendation_first(current_weight, target_change_pct, sets_data) ==
    LET ideal_weight == RMul(sets_data[1].weight, target_change_pct)
        increment == InferIncrement(sets_data)
        rounded == RoundRealistic(ideal_weight, increment)
        realistic_weight ==
            IF RLt(RAbs(RSub(rounded, current_weight)), RMul(increment, <<1, 2>>))
            THEN IF RLt(target_change_pct, I(1))
                 THEN RSub(current_weight, increment)
                 ELSE RAdd(current_weight, increment)
            ELSE rounded
    IN  RMax(I(0), realistic_weight)

get_realistic_weight_recommendation(current_weight, target_change_pct, sets_data) ==
    LET ideal_weight == RMul(current_weight, target_change_pct)
        increment == InferIncrement(sets_data)
        rounded == RoundRealistic(ideal_weight, increment)
        realistic_weight ==
            IF RLt(RAbs(RSub(rounded, current_weight)), RMul(increment, <<1, 2>>))
            THEN IF RLt(target_change_pct, I(1))
                 THEN RSub(current_weight, increment)
                 ELSE RAdd(current_weight, increment)
            ELSE rounded
    IN  RMax(I(0), realistic_weight)

(***************************************************************************)
(* get_last_session_only                                                   *)
(***************************************************************************)
\* The test "x and not pd.isna(x)": None, NaN and 0 all fail it.
Truthy(o) == ~IsNone(o) /\ Val(o)[1] # 0

\* rpe_values of a session: the RPEs that pass the test, in row order
RpeValues(rows) ==
    LET kept == SelectSeq(rows, LAMBDA r : Truthy(r.rpe))
    IN  [i \in DOMAIN kept |-> Val(kept[i].rpe)]

PeakRpe_first(rpe_values) ==
    IF rpe_values # <<>> THEN Some(rpe_values[1]) ELSE None

PeakRpe(rpe_values) ==
    IF rpe_values # <<>> THEN Some(RMaxSeq(rpe_values)) ELSE None

FinalRpe(rpe_values) ==
    IF rpe_values # <<>> THEN Some(rpe_values[Len(rpe_values)]) ELSE None

SetVolume(row) ==
    IF RGt(row.weight, I(0)) THEN RMul(row.weight, I(row.reps)) ELSE I(0)

SetsData(rows) ==
    [i \in DOMAIN rows |->
        [weight |-> rows[i].weight, reps |-> rows[i].reps,
         rpe |-> rows[i].rpe, volume |-> SetVolume(rows[i])]]

\* A suggestion: the f-string used, the weight computed for it and the
\* numbers as the f-string prints them (tenths).
Suggest(text, new_weight, peak_rpe) ==
    [text |-> text,
     new_weight |-> new_weight,
     weight_shown |-> IF IsNone(new_weight) THEN None
                      ELSE Some(Format1f(Val(new_weight))),
     rpe_shown |-> IF IsNone(peak_rpe) THEN None
                   ELSE Some(Format1f(Val(peak_rpe)))]

Recommend(avg_weight, pct, sets_data) ==
    Some(get_realistic_weight_recommendation(avg_weight, pct, sets_data))

\* The rep-based branches inside the RPE branch (lines 1996-2018)
RepFallbackVerdict(rep_range, avg_reps, avg_weight, is_assisted, sets_data) ==
    IF RLt(avg_reps, I(rep_range[1]))
    THEN [verdict |-> "too heavy",
          suggestion |->
            IF is_assisted
            THEN Suggest("increase assistance to {new_weight:.1f}kg next time",
                         Recommend(avg_weight, <<11, 10>>, sets_data), None)
            ELSE Suggest("reduce to {new_weight:.1f}kg next time",
                         Recommend(avg_weight, <<9, 10>>, sets_data), None)]
    ELSE IF RGt(avg_reps, I(rep_range[2]))
    THEN [verdict |-> "too light",
          suggestion |->
            IF is_assisted
            THEN Suggest("reduce assistance to {new_weight:.1f}kg next time",
                         Recommend(avg_weight, <<19, 20>>, sets_data), None)
            ELSE Suggest("increase to {new_weight:.1f}kg next time",
                         Recommend(avg_weight, <<21, 20>>, sets_data), None)]
    ELSE [verdict |-> "in range",
          suggestion |-> Suggest("maintain this weight (good RPE and reps)",
                                 None, None)]

RepOnlyVerdict_le(rep_range, avg_reps, avg_weight, is_assisted, sets_data) ==
    IF RLe(avg_reps, I(rep_range[1]))
    THEN [verdict |-> "too heavy",
          suggestion |->
            IF is_assisted
            THEN Suggest("increase assistance to {new_weight:.1f}kg next time",
                         Recommend(avg_weight, <<11, 10>>, sets_data), None)
            ELSE Suggest("reduce to {new_weight:.1f}kg next time",
                         Recommend(avg_weight, <<9, 10>>, sets_data), None)]
    ELSE IF RGt(avg_reps, I(rep_range[2]))
    THEN [verdict |-> "too light",
          suggestion |->
            IF is_assisted
            THEN Suggest("reduce assistance to {new_weight:.1f}kg next time",
                         Recommend(avg_weight, <<9, 10>>, sets_data), None)
            ELSE Suggest("increase to {new_weight:.1f}kg next time",
                         Recommend(avg_weight, <<21, 20>>, sets_data), None)]
    ELSE [verdict |-> "in range",
          suggestion |-> Suggest("maintain this weight (no RPE data)",
                                 None, None)]

\* The rep-based branches when there is no RPE (lines 2021-2043)
RepOnlyVerdict(rep_range, avg_reps, avg_weight, is_assisted, sets_data) ==
    IF RLt(avg_reps, I(rep_range[1]))
    THEN [verdict |-> "too heavy",
          suggestion |->
            IF is_assisted
            THEN Suggest("increase assistance to {new_weight:.1f}kg next time",
                         Recommend(avg_weight, <<11, 10>>, sets_data), None)
            ELSE Suggest("reduce to {new_weight:.1f}kg next time",
                         Recommend(avg_weight, <<9, 10>>, sets_data), None)]
    ELSE IF RGt(avg_reps, I(rep_range[2]))
    THEN [verdict |-> "too light",
          suggestion |->
            IF is_assisted
            THEN Suggest("reduce assistance to {new_weight:.1f}kg next time",
                         Recommend(avg_weight, <<9, 10>>, sets_data), None)
            ELSE Suggest("increase to {new_weight:.1f}kg next time",
                         Recommend(avg_weight, <<21, 20>>, sets_data), None)]
    ELSE [verdict |-> "in range",
          suggestion |-> Suggest("maintain this weight (no RPE data)",
                                 None, None)]

SessionVerdict_wide(rep_range, peak_rpe, final_rpe, avg_reps, avg_weight, is_assisted, sets_data) ==
    IF IsNone(rep_range)
    THEN [verdict |-> "no target",
          suggestion |-> Suggest("add rep target to rep_rules.py", None, None)]
    ELSE IF Truthy(peak_rpe)
    THEN IF RGe(Val(peak_rpe), <<19, 2>>)
         THEN [verdict |-> "too heavy",
               suggestion |->
                 IF is_assisted
                 THEN Suggest("increase assistance to {new_weight:.1f}kg next time (peak RPE {peak_rpe:.1f} too high)",
                              Recommend(avg_weight, <<21, 20>>, sets_data), peak_rpe)
                 ELSE Suggest("reduce to {new_weight:.1f}kg next time (peak RPE {peak_rpe:.1f} too high)",
                              Recommend(avg_weight, <<19, 20>>, sets_data), peak_rpe)]
         ELSE IF RLe(Val(peak_rpe), <<7, 1>>)
         THEN [verdict |-> "too light",
               suggestion |->
                 IF is_assisted
                 THEN Suggest("reduce assistance to {new_weight:.1f}kg next time (peak RPE {peak_rpe:.1f} too low)",
                              Recommend(avg_weight, <<19, 20>>, sets_data), peak_rpe)
                 ELSE Suggest("increase to {new_weight:.1f}kg next time (peak RPE {peak_rpe:.1f} too low)",
                              Recommend(avg_weight, <<21, 20>>, sets_data), peak_rpe)]
         ELSE IF Truthy(final_rpe) /\ RGe(Val(final_rpe), <<9, 1>>)
         THEN [verdict |-> "optimal",
               suggestion |-> Suggest("perfect intensity - maintain this weight!",
                                      None, None)]
         ELSE IF RLe(<<7, 1>>, Val(peak_rpe)) /\ RLe(Val(peak_rpe), <<19, 2>>)
         THEN [verdict |-> "optimal",
               suggestion |-> Suggest("perfect intensity - maintain this weight!",
                                      None, None)]
         ELSE RepFallbackVerdict(Val(rep_range), avg_reps, avg_weight,
                                 is_assisted, sets_data)
    ELSE RepOnlyVerdict(Val(rep_range), avg_reps, avg_weight, is_assisted,
                        sets_data)

\* Lines 1960-2043: the verdict and suggestion of one exercise of the session.
SessionVerdict(rep_range, peak_rpe, final_rpe, avg_reps, avg_weight, is_assisted, sets_data) ==
    IF IsNone(rep_range)
    THEN [verdict |-> "no target",
          suggestion |-> Suggest("add rep target to rep_rules.py", None, None)]
    ELSE IF Truthy(peak_rpe)
    THEN IF RGe(Val(peak_rpe), <<19, 2>>)
         THEN [verdict |-> "too heavy",
               suggestion |->
                 IF is_assisted
                 THEN Suggest("increase assistance to {new_weight:.1f}kg next time (peak RPE {peak_rpe:.1f} too high)",
                              Recommend(avg_weight, <<21, 20>>, sets_data), peak_rpe)
                 ELSE Suggest("reduce to {new_weight:.1f}kg next time (peak RPE {peak_rpe:.1f} too high)",
                              Recommend(avg_weight, <<19, 20>>, sets_data), peak_rpe)]
         ELSE IF RLe(Val(peak_rpe), <<7, 1>>)
         THEN [verdict |-> "too light",
               suggestion |->
                 IF is_assisted
                 THEN Suggest("reduce assistance to {new_weight:.1f}kg next time (peak RPE {peak_rpe:.1f} too low)",
                              Recommend(avg_weight, <<19, 20>>, sets_data), peak_rpe)
                 ELSE Suggest("increase to {new_weight:.1f}kg next time (peak RPE {peak_rpe:.1f} too low)",
                              Recommend(avg_weight, <<21, 20>>, sets_data), peak_rpe)]
         ELSE IF Truthy(final_rpe) /\ RGe(Val(final_rpe), <<9, 1>>)
         THEN [verdict |-> "optimal",
               suggestion |-> Suggest("perfect intensity - maintain this weight!",
                                      None, None)]
         ELSE IF RLe(<<15, 2>>, Val(peak_rpe)) /\ RLe(Val(peak_rpe), <<9, 1>>)
         THEN [verdict |-> "optimal",
               suggestion |-> Suggest("perfect intensity - maintain this weight!",
                                      None, None)]
         ELSE RepFallbackVerdict(Val(rep_range), avg_reps, avg_weight,
                                 is_assisted, sets_data)
    ELSE RepOnlyVerdict(Val(rep_range), avg_reps, avg_weight, is_assisted,
                        sets_data)

\* Lines 1931-2058: the entry appended for one exercise of the latest session.
LastSessionExercise(exercise, exercise_data) ==
    LET sets_data == SetsData(exercise_data)
        rpe_values == RpeValues(exercise_data)
        rep_range == RepRangeGet(exercise)
        avg_reps == RMean([i \in DOMAIN exercise_data |-> I(exercise_data[i].reps)])
        avg_weight == RMean(Column(exercise_data, "weight"))
        peak_rpe == PeakRpe(rpe_values)
        final_rpe == FinalRpe(rpe_values)
        v == SessionVerdict(rep_range, peak_rpe, final_rpe, avg_reps,
                            avg_weight, is_assisted_exercise(exercise), sets_data)
    IN  [name |-> exercise,
         sets |-> sets_data,
         num_sets |-> Len(sets_data),
         avg_weight |-> avg_weight,
         avg_reps |-> avg_reps,
         avg_rpe |-> RpeMean(exercise_data),
         peak_rpe |-> peak_rpe,
         final_rpe |-> final_rpe,
         total_volume |-> RSum(Column(sets_data, "volume")),
         verdict |-> v.verdict,
         suggestion |-> v.suggestion,
         target_range |-> rep_range]

\* list.sort(key=total_volume, reverse=True): stable, largest volume first
RECURSIVE SortByVolume(_)
SortByVolume(s) ==
    IF s = <<>> THEN <<>>
    ELSE LET rest == SortByVolume(SubSeq(s, 1, Len(s) - 1))
             x == s[Len(s)]
             k == Cardinality({i \in DOMAIN rest :
                                 RGe(rest[i].total_volume, x.total_volume)})
         IN  SubSeq(rest, 1, k) \o <<x>> \o SubSeq(rest, k + 1, Len(rest))

get_last_session_only(d) ==
    IF Len(d) = 0 THEN <<>>
    ELSE LET latest_date == MaxInt(Range(Column(d, "date")))
             latest_session == WhereEq(d, "date", latest_date)
             names == SortedNames(Range(Column(latest_session, "exercise")))
             entries == [i \in DOMAIN names |->
                            LastSessionExercise(names[i],
                                WhereEq(latest_session, "exercise", names[i]))]
         IN  [date |-> latest_date,
              workout_title |-> latest_session[1].workout,
              total_exercises |-> Len(names),
              total_sets |-> Len(latest_session),
              exercises |-> SortByVolume(entries)]

(***************************************************************************)
(* get_exercise_progression                                                *)
(***************************************************************************)
\* (session_data["weight"] * session_data["reps"]).sum()
VolumeSum(rows) ==
    RSum([i \in DOMAIN rows |-> RMul(rows[i].weight, I(rows[i].reps))])

\* x / base * 100 if base > 0 else 0
PctOf(x, base) ==
    IF RGt(base, I(0)) THEN RMul(RDiv(x, base), I(100)) ELSE I(0)

\* Lines 2548-2564: the summary appended for the i-th newest date.
ProgressionSession(exercise_df, date, i) ==
    LET session_data == WhereEq(exercise_df, "date", date)
    IN  [date |-> date,
         session_ago |-> i,
         avg_weight |-> RMean(Column(session_data, "weight")),
         avg_reps |-> RMean([k \in DOMAIN session_data |-> I(session_data[k].reps)]),
         avg_rpe |-> RpeMean(session_data),
         total_volume |-> VolumeSum(session_data),
         sets |-> Len(session_data)]

\* session_dates = sorted(exercise_df["date"].unique(), reverse=True)
SessionDates(exercise_df) == SortedDesc(Range(Column(exercise_df, "date")))

ProgressionMetrics_window(sessions) ==
    LET latest == sessions[1]
        previous == sessions[2]
        weight_change == RSub(latest.avg_weight, previous.avg_weight)
        weight_change_pct == PctOf(weight_change, previous.avg_weight)
        volume_change == RSub(latest.total_volume, previous.total_volume)
        weights == Column(sessions, "avg_weight")
        first_weight == sessions[Len(sessions)].avg_weight
    IN  [sessions |-> sessions,
         weight_change |-> weight_change,
         weight_change_pct |-> weight_change_pct,
         volume_change |-> volume_change,
         volume_change_pct |-> PctOf(volume_change, previous.total_volume),
         trend_change_pct |->
             IF Len(sessions) >= 3
             THEN PctOf(RSub(latest.avg_weight, first_weight), first_weight)
             ELSE weight_change_pct,
         is_stagnant |-> Cardinality(Range(weights)) = 1 /\ Len(weights) >= 3,
         sessions_count |-> Len(sessions)]

\* Lines 2566-2598: the metrics computed from the (2 to 4) sessions.
ProgressionMetrics(sessions) ==
    LET latest == sessions[1]
        previous == sessions[2]
        weight_change == RSub(latest.avg_weight, previous.avg_weight)
        weight_change_pct == PctOf(weight_change, previous.avg_weight)
        volume_change == RSub(latest.total_volume, previous.total_volume)
        weights == Column(Take(sessions, 3), "avg_weight")
        first_weight == sessions[Len(sessions)].avg_weight
    IN  [sessions |-> sessions,
         weight_change |-> weight_change,
         weight_change_pct |-> weight_change_pct,
         volume_change |-> volume_change,
         volume_change_pct |-> PctOf(volume_change, previous.total_volume),
         trend_change_pct |->
             IF Len(sessions) >= 3
             THEN PctOf(RSub(latest.avg_weight, first_weight), first_weight)
             ELSE weight_change_pct,
         is_stagnant |-> Cardinality(Range(weights)) = 1 /\ Len(weights) >= 3,
         sessions_count |-> Len(sessions)]

ProgressionKeys_three(d) ==
    {e \in Range(Column(d, "exercise")) :
        Len(SessionDates(WhereEq(d, "exercise", e))) >= 3}

\* the exercises that get an entry: those with at least 2 session dates
ProgressionKeys(d) ==
    {e \in Range(Column(d, "exercise")) :
        Len(SessionDates(WhereEq(d, "exercise", e))) >= 2}

get_exercise_progression_uncapped(d) ==
    IF Len(d) = 0 THEN <<>>
    ELSE [e \in ProgressionKeys(d) |->
            LET exercise_df == WhereEq(d, "exercise", e)
                dates == SessionDates(exercise_df)
            IN  ProgressionMetrics(
                    [i \in DOMAIN dates |->
                        ProgressionSession(exercise_df, dates[i], i - 1)])]

get_exercise_progression(d) ==
    IF Len(d) = 0 THEN <<>>
    ELSE [e \in ProgressionKeys(d) |->
            LET exercise_df == WhereEq(d, "exercise", e)
                dates == Take(SessionDates(exercise_df), 4)
            IN  ProgressionMetrics(
                    [i \in DOMAIN dates |->
                        ProgressionSession(exercise_df, dates[i], i - 1)])]

(***************************************************************************)
(* detect_plateaus_and_periodization                                       *)
(***************************************************************************)
\* df["exercise"].unique(): the distinct values in order of first appearance,
\* which is the insertion order of the keys of progression_data.
RECURSIVE Unique(_)
Unique(s) ==
    IF s = <<>> THEN <<>>
    ELSE <<s[1]>> \o Unique(SelectSeq(Tail(s), LAMBDA x : x # s[1]))

DictKeys(d) == Unique(Column(d, "exercise"))

\* Lines 2775-2792: was the decline accompanied by high RPE?  avg_rpe is NaN
\* for a session without RPE: NaN is truthy and NaN >= 9.5 is false, while
\* "x and not pd.isna(x)" drops NaN and 0.
HighRpeDetected(sessions) ==
    LET recent == Take(sessions, 3)
        kept == SelectSeq(recent, LAMBDA x : Truthy(x.avg_rpe))
        rpe_values == [i \in DOMAIN kept |-> Val(kept[i].avg_rpe)]
    IN  /\ Len(sessions) >= 2
        /\ \/ \E i \in DOMAIN recent :
                 /\ ~IsNone(recent[i].avg_rpe)
                 /\ RGe(Val(recent[i].avg_rpe), <<19, 2>>)
           \/ /\ rpe_values # <<>>
              /\ RGe(RDiv(RSum(rpe_values), I(Len(rpe_values))), <<9, 1>>)

PeriodizationCategory_ge(data) ==
    IF data.is_stagnant THEN "plateaued"
    ELSE IF RGe(data.trend_change_pct, I(2)) THEN "progressing"
    ELSE IF RLe(data.trend_change_pct, I(-2))
    THEN IF HighRpeDetected(data.sessions) THEN "smart" ELSE "regressing"
    ELSE "none"

\* Lines 2754-2804: the list an exercise is appended to.
PeriodizationCategory(data) ==
    IF data.is_stagnant THEN "plateaued"
    ELSE IF RGt(data.trend_change_pct, I(2)) THEN "progressing"
    ELSE IF RLt(data.trend_change_pct, I(-2))
    THEN IF HighRpeDetected(data.sessions) THEN "smart" ELSE "regressing"
    ELSE "none"

ProgramStatus_ge(plateau_pct, effective_progressing, plateaued, regressing) ==
    IF RGe(plateau_pct, I(50))
    THEN <<"Major Plateau", "Consider a deload week or program change">>
    ELSE IF RGe(plateau_pct, I(30))
    THEN <<"Moderate Plateau", "Review programming and consider technique focus">>
    ELSE IF effective_progressing > plateaued + regressing
    THEN <<"Progressing Well", "Keep current program, great momentum!">>
    ELSE <<"Mixed Progress", "Fine-tune weights and recovery">>

\* Lines 2810-2821
ProgramStatus(plateau_pct, effective_progressing, plateaued, regressing) ==
    IF RGt(plateau_pct, I(50))
    THEN <<"Major Plateau", "Consider a deload week or program change">>
    ELSE IF RGt(plateau_pct, I(30))
    THEN <<"Moderate Plateau", "Review programming and consider technique focus">>
    ELSE IF effective_progressing > plateaued + regressing
    THEN <<"Progressing Well", "Keep current program, great momentum!">>
    ELSE <<"Mixed Progress", "Fine-tune weights and recovery">>

\* keys: the keys of every exercise in dict order; those of progression_data
\* are iterated in that order.
detect_plateaus_and_periodization(data, keys) ==
    LET items == SelectSeq(keys, LAMBDA e : e \in DOMAIN data)
        In(c) == SelectSeq(items, LAMBDA e : PeriodizationCategory(data[e]) = c)
        plateaued == In("plateaued")
        progressing == In("progressing")
        regressing == In("regressing")
        smart == In("smart")
        total_exercises == Cardinality(DOMAIN data)
        effective_progressing == Len(progressing) + Len(smart)
        plateau_pct ==
            IF total_exercises > 0
            THEN RMul(RDiv(I(Len(plateaued)), I(total_exercises)), I(100))
            ELSE I(0)
        status == ProgramStatus(plateau_pct, effective_progressing,
                                Len(plateaued), Len(regressing))
    IN  [plateaued_exercises |->
             [i \in DOMAIN plateaued |->
                 [name |-> plateaued[i],
                  sessions_stagnant |-> data[plateaued[i]].sessions_count]],
         progressing_exercises |->
             [i \in DOMAIN progressing |->
                 [name |-> progressing[i],
                  progress_pct |-> data[progressing[i]].trend_change_pct]],
         regressing_exercises |->
             [i \in DOMAIN regressing |->
                 [name |-> regressing[i],
                  decline_pct |-> data[regressing[i]].trend_change_pct]],
         smart_adjustments |->
             [i \in DOMAIN smart |->
                 [name |-> smart[i],
                  decline_pct |-> data[smart[i]].trend_change_pct,
                  justification |-> "RPE-based smart adjustment"]],
         deload_candidates |->
             SelectSeq(plateaued, LAMBDA e : data[e].sessions_count >= 3),
         plateau_percentage |-> plateau_pct,
         program_status |-> status[1],
         program_suggestion |-> status[2],
         total_exercises |-> total_exercises]

(***************************************************************************)
(* analyze_exercise_evolution                                              *)
(***************************************************************************)
EvolutionVerdict_peak(rep_range, peak_rpe, final_rpe, avg_reps) ==
    IF IsNone(rep_range) THEN "no target"
    ELSE IF Truthy(peak_rpe)
    THEN IF RGe(Val(peak_rpe), <<19, 2>>) THEN "too heavy (RPE)"
         ELSE IF RLe(Val(peak_rpe), <<7, 1>>) THEN "too light (RPE)"
         ELSE IF RLe(<<15, 2>>, Val(peak_rpe)) /\ RLe(Val(peak_rpe), <<9, 1>>)
         THEN "optimal"
         ELSE IF RLt(avg_reps, I(Val(rep_range)[1])) THEN "too heavy"
         ELSE IF RGt(avg_reps, I(Val(rep_range)[2])) THEN "too light"
         ELSE "in range"
    ELSE IF RLt(avg_reps, I(Val(rep_range)[1])) THEN "too heavy"
    ELSE IF RGt(avg_reps, I(Val(rep_range)[2])) THEN "too light"
    ELSE "in range"

\* Lines 2982-3011: the verdict the audit gives a session.
EvolutionVerdict(rep_range, peak_rpe, final_rpe, avg_reps) ==
    IF IsNone(rep_range) THEN "no target"
    ELSE IF Truthy(peak_rpe)
    THEN IF RGe(Val(peak_rpe), <<19, 2>>) THEN "too heavy (RPE)"
         ELSE IF RLe(Val(peak_rpe), <<7, 1>>) THEN "too light (RPE)"
         ELSE IF Truthy(final_rpe) /\ RGe(Val(final_rpe), <<9, 1>>) THEN "optimal"
         ELSE IF RLe(<<15, 2>>, Val(peak_rpe)) /\ RLe(Val(peak_rpe), <<9, 1>>)
         THEN "optimal"
         ELSE IF RLt(avg_reps, I(Val(rep_range)[1])) THEN "too heavy"
         ELSE IF RGt(avg_reps, I(Val(rep_range)[2])) THEN "too light"
         ELSE "in range"
    ELSE IF RLt(avg_reps, I(Val(rep_range)[1])) THEN "too heavy"
    ELSE IF RGt(avg_reps, I(Val(rep_range)[2])) THEN "too light"
    ELSE "in range"

\* Lines 2966-3024: the analysis appended for the i-th newest date.
EvolutionSession(exercise, exercise_df, date, i) ==
    LET session_data == WhereEq(exercise_df, "date", date)
        avg_reps == RMean([k \in DOMAIN session_data |-> I(session_data[k].reps)])
        rpe_values == RpeValues(session_data)
        peak_rpe == PeakRpe(rpe_values)
        final_rpe == FinalRpe(rpe_values)
    IN  [date |-> date,
         session_ago |-> i,
         avg_weight |-> RMean(Column(session_data, "weight")),
         avg_reps |-> avg_reps,
         avg_rpe |-> RpeMean(session_data),
         peak_rpe |-> peak_rpe,
         final_rpe |-> final_rpe,
         total_volume |-> VolumeSum(session_data),
         sets |-> Len(session_data),
         verdict |-> EvolutionVerdict(RepRangeGet(exercise), peak_rpe,
                                      final_rpe, avg_reps)]

ActualAction_ge(weight_change) ==
    IF RGe(weight_change, <<1, 2>>) THEN "increased"
    ELSE IF RLe(weight_change, <<-1, 2>>) THEN "decreased"
    ELSE "maintained"

\* Lines 3036-3042
ActualAction(weight_change) ==
    IF RGt(weight_change, <<1, 2>>) THEN "increased"
    ELSE IF RLt(weight_change, <<-1, 2>>) THEN "decreased"
    ELSE "maintained"

OptimalAction_default(verdict) ==
    IF verdict \in {"too heavy", "too heavy (RPE)"} THEN "decrease"
    ELSE IF verdict \in {"too light", "too light (RPE)"} THEN "increase"
    ELSE "maintain"

\* Lines 3044-3054
OptimalAction(verdict) ==
    IF verdict \in {"too heavy", "too heavy (RPE)"} THEN "decrease"
    ELSE IF verdict \in {"too light", "too light (RPE)"} THEN "increase"
    ELSE IF verdict \in {"optimal", "in range"} THEN "maintain"
    ELSE "unknown"

DecisionIsGood_strict(optimal_action, actual_action, current, previous) ==
    LET current_rpe == current.peak_rpe
    IN  IF optimal_action = "decrease" /\ actual_action = "decreased" THEN TRUE
        ELSE IF optimal_action = "increase" /\ actual_action = "increased" THEN TRUE
        ELSE IF optimal_action = "maintain"
        THEN IF actual_action \in {"maintained", "increased"} THEN TRUE
             ELSE IF actual_action = "decreased"
             THEN IF Truthy(current_rpe) /\ RGe(Val(current_rpe), <<9, 1>>) THEN TRUE
                  ELSE Truthy(previous.peak_rpe)
                       /\ RGe(Val(previous.peak_rpe), <<9, 1>>)
             ELSE FALSE
        ELSE FALSE

DecisionIsGood_current(optimal_action, actual_action, current, previous) ==
    LET current_rpe == current.peak_rpe
    IN  IF optimal_action = "decrease" /\ actual_action = "decreased" THEN TRUE
        ELSE IF optimal_action = "increase" /\ actual_action = "increased" THEN TRUE
        ELSE IF optimal_action = "maintain"
        THEN IF actual_action \in {"maintained", "increased"} THEN TRUE
             ELSE IF actual_action = "decreased"
             THEN Truthy(current_rpe) /\ RGe(Val(current_rpe), <<9, 1>>)
             ELSE FALSE
        ELSE IF actual_action = "decreased" /\ Truthy(current_rpe)
                /\ RGe(Val(current_rpe), <<19, 2>>) THEN TRUE
        ELSE IF actual_action = "increased" /\ Truthy(current_rpe)
                /\ RLe(Val(current_rpe), <<15, 2>>) THEN TRUE
        ELSE actual_action = "maintained"

\* Lines 3075-3102
DecisionIsGood(optimal_action, actual_action, current, previous) ==
    LET current_rpe == current.peak_rpe
    IN  IF optimal_action = "decrease" /\ actual_action = "decreased" THEN TRUE
        ELSE IF optimal_action = "increase" /\ actual_action = "increased" THEN TRUE
        ELSE IF optimal_action = "maintain"
        THEN IF actual_action \in {"maintained", "increased"} THEN TRUE
             ELSE IF actual_action = "decreased"
             THEN IF Truthy(current_rpe) /\ RGe(Val(current_rpe), <<9, 1>>) THEN TRUE
                  ELSE Truthy(previous.peak_rpe)
                       /\ RGe(Val(previous.peak_rpe), <<9, 1>>)
             ELSE FALSE
        ELSE IF actual_action = "decreased" /\ Truthy(current_rpe)
                /\ RGe(Val(current_rpe), <<19, 2>>) THEN TRUE
        ELSE IF actual_action = "increased" /\ Truthy(current_rpe)
                /\ RLe(Val(current_rpe), <<15, 2>>) THEN TRUE
        ELSE actual_action = "maintained"

to_past_tense(action) ==
    IF action = "maintain" THEN "maintained"
    ELSE IF action = "increase" THEN "increased"
    ELSE IF action = "decrease" THEN "decreased"
    ELSE action

\* One pass of the loop of lines 3030-3120 for the pair (i, i + 1).
Transition(sessions_analysis, i) ==
    LET current == sessions_analysis[i]
        previous == sessions_analysis[i + 1]
        weight_change == RSub(current.avg_weight, previous.avg_weight)
        actual_action == ActualAction(weight_change)
        optimal_action == OptimalAction(previous.verdict)
    IN  [from_date |-> previous.date,
         to_date |-> current.date,
         optimal_action |-> optimal_action,
         actual_action |-> actual_action,
         weight_change |-> weight_change,
         good |-> DecisionIsGood(optimal_action, actual_action, current, previous)]

GoodDecision(t) ==
    [from_date |-> t.from_date, to_date |-> t.to_date,
     action |-> t.actual_action, weight_change |-> t.weight_change,
     verdict |-> "good decision"]

MissedOpportunity(t) ==
    [from_date |-> t.from_date, to_date |-> t.to_date,
     should_have |-> t.optimal_action, actually_did |-> t.actual_action,
     weight_change |-> t.weight_change,
     missed_opportunity |-> <<"should have", to_past_tense(t.optimal_action),
                              "but", t.actual_action, "instead">>]

EvolutionEntry_sessions(sessions_analysis, absolute_latest_date) ==
    LET all == [i \in 1..(Len(sessions_analysis) - 1) |->
                   Transition(sessions_analysis, i)]
        scored == SelectSeq(all, LAMBDA t : t.optimal_action # "unknown")
        good == SelectSeq(scored, LAMBDA t : t.good)
        missed == SelectSeq(scored, LAMBDA t : ~t.good)
        total_decisions == Len(good) + Len(missed)
    IN  [sessions |-> sessions_analysis,
         good_decisions |-> [i \in DOMAIN good |-> GoodDecision(good[i])],
         missed_opportunities |->
             [i \in DOMAIN missed |-> MissedOpportunity(missed[i])],
         efficiency_score |->
             IF total_decisions > 0
             THEN RMul(RDiv(I(Len(good)), I(Len(sessions_analysis))), I(100))
             ELSE I(0),
         total_decisions |-> total_decisions,
         absolute_latest_date |-> absolute_latest_date]

\* Lines 3026-3133: the audit of one exercise.
EvolutionEntry(sessions_analysis, absolute_latest_date) ==
    LET all == [i \in 1..(Len(sessions_analysis) - 1) |->
                   Transition(sessions_analysis, i)]
        scored == SelectSeq(all, LAMBDA t : t.optimal_action # "unknown")
        good == SelectSeq(scored, LAMBDA t : t.good)
        missed == SelectSeq(scored, LAMBDA t : ~t.good)
        total_decisions == Len(good) + Len(missed)
    IN  [sessions |-> sessions_analysis,
         good_decisions |-> [i \in DOMAIN good |-> GoodDecision(good[i])],
         missed_opportunities |->
             [i \in DOMAIN missed |-> MissedOpportunity(missed[i])],
         efficiency_score |->
             IF total_decisions > 0
             THEN RMul(RDiv(I(Len(good)), I(total_decisions)), I(100))
             ELSE I(0),
         total_decisions |-> total_decisions,
         absolute_latest_date |-> absolute_latest_date]

\* the exercises that get an entry: those with at least 3 session dates
EvolutionKeys(d) ==
    {e \in Range(Column(d, "exercise")) :
        ~(Len(SessionDates(WhereEq(d, "exercise", e))) < 3)}

analyze_exercise_evolution(d) ==
    IF Len(d) = 0 THEN <<>>
    ELSE [e \in EvolutionKeys(d) |->
            LET exercise_df == WhereEq(d, "exercise", e)
                dates == Take(SessionDates(exercise_df), 5)
            IN  EvolutionEntry(
                    [i \in DOMAIN dates |->
                        EvolutionSession(e, exercise_df, dates[i], i - 1)],
                    MaxInt(Range(Column(d, "date"))))]

(***************************************************************************)
(* latest_session_stats                                                    *)
(***************************************************************************)
\* DataFrame.round(1) on one value: to the nearest tenth, ties to even
Round1(x) == Rat(RoundHalfEven(RMul(x, I(10))), 10)

\* Lines 1786-1797: the aggregate row of one exercise over the rows of its
\* latest date.  The means are rounded to one decimal before total_volume is
\* computed from avg_weight and total_reps.
latest_stats_row(rows) ==
    LET reps == [i \in DOMAIN rows |-> I(rows[i].reps)]
        avg_weight == Round1(RMean(Column(rows, "weight")))
        total_reps == Round1(RSum(reps))
        avg_rpe == RpeMean(rows)
    IN  [date |-> MaxInt(Range(Column(rows, "date"))),
         sets |-> Len(rows),
         avg_reps |-> Round1(RMean(reps)),
         total_reps |-> total_reps,
         avg_weight |-> avg_weight,
         avg_rpe |-> IF IsNone(avg_rpe) THEN None ELSE Some(Round1(Val(avg_rpe))),
         total_volume |-> Round1(RMul(avg_weight, total_reps))]

\* Lines 1768-1799: one row per exercise, over the sets of its latest date.
latest_session_stats(d) ==
    IF Len(d) = 0 THEN <<>>
    ELSE [e \in Range(Column(d, "exercise")) |->
             LET exercise_df == WhereEq(d, "exercise", e)
                 latest_date == MaxInt(Range(Column(exercise_df, "date")))
             IN  latest_stats_row(WhereEq(exercise_df, "date", latest_date))]

(***************************************************************************)
(* events_to_df, filter_recent_data, filter_excluded_exercises             *)
(*                                                                         *)
(* A JSON object is a function from the keys it has; JSON null is None and *)
(* a JSON number v is Some(v).  A date is its day of the year 2025 and a   *)
(* datetime is [date, seconds], the seconds counted from midnight.         *)
(***************************************************************************)
\* dict.get(key, default)
Get(obj, key, default) == IF key \in DOMAIN obj THEN obj[key] ELSE default

\* Line 1727: datetime.fromisoformat(start_time.replace('Z', '+00:00')), as
\* <<year, month, day, hour, minute, second>> in the offset the string names;
\* <<>> stands for the ValueError raised on any other string.
fromisoformat(start_time) ==
    CASE start_time = "2025-06-09T18:30:00Z" -> <<2025, 6, 9, 18, 30, 0>>
      [] start_time = "2025-03-12T06:00:00Z" -> <<2025, 3, 12, 6, 0, 0>>
      [] start_time = "2025-03-11T23:59:59Z" -> <<2025, 3, 11, 23, 59, 59>>
      [] start_time = "2025-06-11T06:00:00+02:00" -> <<2025, 6, 11, 6, 0, 0>>
      [] OTHER -> <<>>

\* datetime.date() of a parsed datetime of the year 2025, as day of the year
DateOf(fields) ==
    LET days_before_month ==
            <<0, 31, 59, 90, 120, 151, 181, 212, 243, 273, 304, 334>>
    IN  days_before_month[fields[2]] + fields[3]

\* "x or 0.0" for a weight and "x or 0" for a number of reps
WeightOrZero(v) == IF Truthy(v) THEN Val(v) ELSE I(0)
RepsOrZero(v) == IF ~IsNone(v) /\ Val(v) # 0 THEN Val(v) ELSE 0

\* Lines 1734-1749: the rows of the sets of one exercise
SetRows(workout_date, workout_title, exercise, sets) ==
    LET normal == SelectSeq(sets, LAMBDA set_data :
                                Get(set_data, "type", "None") = "normal")
    IN  [i \in DOMAIN normal |->
            [date |-> workout_date,
             workout |-> workout_title,
             exercise |-> Get(exercise, "title", "Unknown Exercise"),
             weight |-> WeightOrZero(Get(normal[i], "weight_kg", Some(I(0)))),
             reps |-> RepsOrZero(Get(normal[i], "reps", Some(0))),
             rpe |-> Get(normal[i], "rpe", None),
             set_index |-> Get(normal[i], "index", 0)]]

\* Lines 1726-1749: the rows of one "updated" event whose start time parses
EventRows(event) ==
    LET workout == Get(event, "workout", <<>>)
        workout_date == DateOf(fromisoformat(Get(workout, "start_time", "")))
        workout_title == Get(workout, "title", "Untitled Workout")
        exercises == Get(workout, "exercises", <<>>)
    IN  Concat([i \in DOMAIN exercises |->
                   SetRows(workout_date, workout_title, exercises[i],
                           Get(exercises[i], "sets", <<>>))])

\* Line 1727 raises ValueError for an "updated" event whose start time does
\* not parse (a missing one is read as "").
RaisesValueError(event) ==
    /\ Get(event, "type", "None") = "updated"
    /\ fromisoformat(Get(Get(event, "workout", <<>>), "start_time", "")) = <<>>

\* the exercise titles of the model, in Python string order
TitleOrder == <<"Squat (Barbell)", "TREADMILL", "Treadmill", "Treadmill Walk">>
TitleIndex(name) == CHOOSE i \in DOMAIN TitleOrder : TitleOrder[i] = name

RowLess_date(a, b) == a.date < b.date

\* the order of sort_values(["date", "exercise", "set_index"])
RowLess(a, b) ==
    \/ a.date < b.date
    \/ a.date = b.date /\ TitleIndex(a.exercise) < TitleIndex(b.exercise)
    \/ a.date = b.date /\ a.exercise = b.exercise /\ a.set_index < b.set_index

\* stable insertion of r into the sorted list rows
InsertRow(rows, r) ==
    LET k == Cardinality({i \in DOMAIN rows : ~RowLess(r, rows[i])})
    IN  SubSeq(rows, 1, k) \o <<r>> \o SubSeq(rows, k + 1, Len(rows))

RECURSIVE SortValues(_)
SortValues(rows) ==
    IF rows = <<>> THEN <<>>
    ELSE InsertRow(SortValues(SubSeq(rows, 1, Len(rows) - 1)), rows[Len(rows)])

\* Lines 1721-1749: the loop over the events, stopped by the first ValueError
RECURSIVE CollectRows(_, _)
CollectRows(events, rows) ==
    IF events = <<>> THEN [raised |-> "", rows |-> rows]
    ELSE IF RaisesValueError(events[1]) THEN [raised |-> "ValueError", rows |-> <<>>]
    ELSE IF Get(events[1], "type", "None") # "updated"
         THEN CollectRows(Tail(events), rows)
    ELSE CollectRows(Tail(events), rows \o EventRows(events[1]))

\* Lines 1701-1756.  The result names how the call ended: "" for a return,
\* "SystemExit" after the printed error of lines 1714-1719, "ValueError" for
\* the exception of line 1727, which nothing catches.
events_to_df(events_file) ==
    IF events_file.status # "ok" THEN [raised |-> "SystemExit", rows |-> <<>>]
    ELSE LET collected == CollectRows(events_file.events, <<>>)
         IN  IF collected.raised # "" THEN collected
             ELSE [raised |-> "", rows |-> SortValues(collected.rows)]

\* Lines 1643-1658: df[df["date"] >= datetime.now() - timedelta(days)], a row
\* date being the midnight that begins its day
filter_recent_data(d, days, clock) ==
    SelectSeq(d, LAMBDA r :
        \/ r.date > clock.date - days
        \/ r.date = clock.date - days /\ 0 >= clock.seconds)

\* Lines 1674-1686
EXCLUDED_EXERCISES ==
    << <<"W", "a", "r", "m", " ", "U", "p">>,
       <<"T", "r", "e", "a", "d", "m", "i", "l", "l">>,
       <<"W", "a", "l", "k", "i", "n", "g">>,
       <<"R", "u", "n", "n", "i", "n", "g">>,
       <<"E", "l", "l", "i", "p", "t", "i", "c", "a", "l">>,
       <<"B", "i", "k", "e">>,
       <<"S", "t", "a", "i", "r", " ", "C", "l", "i", "m", "b", "e", "r">>,
       <<"R", "e", "s", "t">>,
       <<"S", "t", "r", "e", "t", "c", "h", "i", "n", "g">>,
       <<"M", "e", "d", "i", "t", "a", "t", "i", "o", "n">>,
       <<"C", "a", "r", "d", "i", "o">> >>

\* df["exercise"].str.lower().isin([ex.lower() for ex in EXCLUDED_EXERCISES])
IsExcluded(exercise) ==
    \E k \in DOMAIN EXCLUDED_EXERCISES :
        Lower(Chars(exercise)) = Lower(EXCLUDED_EXERCISES[k])

\* Lines 1670-1699
filter_excluded_exercises(d) == SelectSeq(d, LAMBDA r : ~IsExcluded(r.exercise))

\* Line 3570: the retention window of the analyze mode
FilterDays == 90

(***************************************************************************)
(* WorkoutCycle: determine_current_cycle_day and get_next_workout_info     *)
(* (routine_config.py).  The configuration is the record [cycle_pattern,   *)
(* routine_title_mapping, exercise_patterns], the patterns in the order of *)
(* the dict.                                                               *)
(***************************************************************************)
\* routine_config.py, lines 11-60
RoutineConfig ==
    [cycle_pattern |->
        <<"Day 1 - Upper (Push) {flexed biceps}",
          "Day 2 - Lower (Hamstring) {leg}",
          "Day 3 - Rest / Treadmill",
          "Day 4 - Upper (Pull) {flexed biceps}",
          "Day 5 - Lower (Quad) {leg}",
          "Day 6 - Rest">>,
     routine_title_mapping |->
        [t \in {"Day 1 - Upper (Push) {flexed biceps}",
                "Day 2 - Lower (Hamstring) {leg}",
                "Day 3 - Upper (Pull) {flexed biceps}",
                "Day 4 - Lower (Quad) {leg}"} |->
            CASE t = "Day 1 - Upper (Push) {flexed biceps}" -> 0
              [] t = "Day 2 - Lower (Hamstring) {leg}" -> 1
              [] t = "Day 3 - Upper (Pull) {flexed biceps}" -> 3
              [] t = "Day 4 - Lower (Quad) {leg}" -> 4],
     exercise_patterns |->
    << [keywords |->
            << <<"c", "h", "e", "s", "t">>,
               <<"p", "r", "e", "s", "s">>,
               <<"s", "h", "o", "u", "l", "d", "e", "r">>,
               <<"d", "i", "p">>,
               <<"t", "r", "i", "c", "e", "p">>,
               <<"p", "u", "s", "h">> >>,
        next_cycle_day |-> 1],
       [keywords |->
            << <<"c", "u", "r", "l">>,
               <<"d", "e", "a", "d", "l", "i", "f", "t">>,
               <<"h", "a", "m", "s", "t", "r", "i", "n", "g">>,
               <<"h", "i", "p">>,
               <<"g", "l", "u", "t", "e">>,
               <<"r", "d", "l">>,
               <<"s", "l", "d", "l">> >>,
        next_cycle_day |-> 2],
       [keywords |->
            << <<"l", "a", "t">>,
               <<"p", "u", "l", "l">>,
               <<"r", "o", "w">>,
               <<"b", "i", "c", "e", "p">>,
               <<"c", "h", "i", "n">>,
               <<"p", "u", "l", "l", "d", "o", "w", "n">> >>,
        next_cycle_day |-> 4],
       [keywords |->
            << <<"q", "u", "a", "d">>,
               <<"e", "x", "t", "e", "n", "s", "i", "o", "n">>,
               <<"s", "q", "u", "a", "t">>,
               <<"l", "e", "g", " ", "p", "r", "e", "s", "s">>,
               <<"l", "u", "n", "g", "e">>,
               <<"f", "r", "o", "n", "t", " ", "s", "q", "u", "a", "t">> >>,
        next_cycle_day |-> 5] >>]

\* A cycle of three training days without rest day, as the configuration
\* notes allow ("any cycle length - 3, 4, 5, 6, 7 days"), its indices valid.
ThreeDayConfig ==
    [cycle_pattern |-> <<"Push Day", "Pull Day", "Leg Day">>,
     routine_title_mapping |->
        [t \in {"Push Day", "Pull Day", "Leg Day"} |->
            CASE t = "Push Day" -> 0
              [] t = "Pull Day" -> 1
              [] t = "Leg Day" -> 2],
     exercise_patterns |->
    << [keywords |->
            << <<"p", "r", "e", "s", "s">>,
               <<"p", "u", "s", "h">> >>,
        next_cycle_day |-> 1],
       [keywords |->
            << <<"p", "u", "l", "l">>,
               <<"r", "o", "w">> >>,
        next_cycle_day |-> 2],
       [keywords |->
            << <<"s", "q", "u", "a", "t">>,
               <<"d", "e", "a", "d", "l", "i", "f", "t">> >>,
        next_cycle_day |-> 0] >>]

\* Line 567
rest_day_indicators ==
    << <<"r", "e", "s", "t">>,
       <<"t", "r", "e", "a", "d", "m", "i", "l", "l">>,
       <<"c", "a", "r", "d", "i", "o">>,
       <<"r", "e", "c", "o", "v", "e", "r", "y">> >>

\* Lines 557-558: the workouts by (date, workout), the last five by date.
\* The logs of the model hold one workout per date, in date order.
RecentWorkouts(d) ==
    LET workout_info == Unique([i \in DOMAIN d |->
                                   [date |-> d[i].date, workout |-> d[i].workout]])
        n == Len(workout_info)
    IN  IF n <= 5 THEN workout_info ELSE SubSeq(workout_info, n - 4, n)

\* ' '.join(exercises)
RECURSIVE JoinNames(_)
JoinNames(names) ==
    IF names = <<>> THEN <<>>
    ELSE IF Len(names) = 1 THEN Chars(names[1])
    ELSE Chars(names[1]) \o <<" ">> \o JoinNames(Tail(names))

\* Lines 568-571
IsLikelyRestDay(last_workout_title, exercises) ==
    \/ \E k \in DOMAIN rest_day_indicators :
          Contains(last_workout_title, rest_day_indicators[k])
    \/ /\ Len(exercises) = 1
       /\ Contains(Lower(JoinNames(exercises)), rest_day_indicators[2])

\* Lines 575-587: the loop over the cycle days with its two breaks; i is the
\* position in cycle_pattern (from 1), rest_day_match the index found so far.
RECURSIVE RestDayMatch(_, _, _, _)
RestDayMatch(cycle_pattern, last_workout_title, i, rest_day_match) ==
    IF i > Len(cycle_pattern) THEN rest_day_match
    ELSE LET cycle_day_lower == Lower(Chars(cycle_pattern[i]))
             rest == rest_day_indicators[1]
             treadmill == rest_day_indicators[2]
         IN  IF Contains(cycle_day_lower, rest) \/ Contains(cycle_day_lower, treadmill)
             THEN IF /\ Contains(last_workout_title, treadmill)
                     /\ Contains(cycle_day_lower, treadmill)
                  THEN Some(i - 1)
                  ELSE IF /\ Contains(last_workout_title, rest)
                          /\ Contains(cycle_day_lower, rest)
                          /\ ~Contains(cycle_day_lower, treadmill)
                  THEN Some(i - 1)
                  ELSE RestDayMatch(cycle_pattern, last_workout_title, i + 1,
                                    IF IsNone(rest_day_match) THEN Some(i - 1)
                                    ELSE rest_day_match)
             ELSE RestDayMatch(cycle_pattern, last_workout_title, i + 1,
                               rest_day_match)

\* Lines 597-602: the most recent of the recent workouts whose title is a key
\* of the mapping, None when there is none
RECURSIVE LastMapped(_, _)
LastMapped(recent_workouts, routine_title_mapping) ==
    IF recent_workouts = <<>> THEN None
    ELSE LET workout_title == recent_workouts[Len(recent_workouts)].workout
         IN  IF workout_title \in DOMAIN routine_title_mapping
             THEN Some(routine_title_mapping[workout_title])
             ELSE LastMapped(SubSeq(recent_workouts, 1, Len(recent_workouts) - 1),
                             routine_title_mapping)

\* Lines 605-615: the first pattern with a keyword in exercise_str, else 0
RECURSIVE PatternDay(_, _)
PatternDay(exercise_patterns, exercise_str) ==
    IF exercise_patterns = <<>> THEN 0
    ELSE IF \E k \in DOMAIN exercise_patterns[1].keywords :
                Contains(exercise_str, exercise_patterns[1].keywords[k])
    THEN exercise_patterns[1].next_cycle_day
    ELSE PatternDay(Tail(exercise_patterns), exercise_str)

\* Lines 548-615, with the configuration available
determine_current_cycle_day(d, cfg) ==
    IF Len(d) = 0 THEN 0
    ELSE LET recent_workouts == RecentWorkouts(d)
             last_workout == recent_workouts[Len(recent_workouts)]
             last_workout_title == Lower(Chars(last_workout.workout))
             exercises == Unique(Column(WhereEq(d, "date", last_workout.date),
                                        "exercise"))
             rest_day_match == RestDayMatch(cfg.cycle_pattern,
                                            last_workout_title, 1, None)
             last_cycle_day == LastMapped(recent_workouts,
                                          cfg.routine_title_mapping)
         IN  IF IsLikelyRestDay(last_workout_title, exercises)
             THEN IF ~IsNone(rest_day_match)
                  THEN (Val(rest_day_match) + 1) % Len(cfg.cycle_pattern)
                  ELSE 3
             ELSE IF ~IsNone(last_cycle_day)
             THEN (Val(last_cycle_day) + 1) % Len(cfg.cycle_pattern)
             ELSE PatternDay(cfg.exercise_patterns, Lower(JoinNames(exercises)))

\* Lines 617-641.  cycle_pattern[current_day_idx] raises IndexError for an
\* index past the end; routine_data comes from the API and is left out.
get_next_workout_info(d, cfg) ==
    LET current_day_idx == determine_current_cycle_day(d, cfg)
    IN  IF current_day_idx >= Len(cfg.cycle_pattern)
        THEN [raised |-> "IndexError", info |-> <<>>]
        ELSE LET next_workout == cfg.cycle_pattern[current_day_idx + 1]
             IN  [raised |-> "",
                  info |-> [cycle_day_index |-> current_day_idx,
                            workout_name |-> next_workout,
                            is_rest_day |-> Contains(Lower(Chars(next_workout)),
                                                     rest_day_indicators[1]),
                            days_until_same_workout |-> Len(cfg.cycle_pattern)]]

(***************************************************************************)
(* HevyStatsClient.get_all_recent_workouts                                 *)
(*                                                                         *)
(* server[p] is what the API answers to the request of page p: a request   *)
(* that fails ([status |-> "error"]) or a JSON body that may lack "events" *)
(* and "page_count".  A page past the end of server has no events.         *)
(***************************************************************************)
\* Lines 1551-1565: the answer to the request of a page
get_workout_events(srv, p) ==
    IF p \in DOMAIN srv THEN srv[p] ELSE [status |-> "ok", body |-> [page |-> p]]

IsLastPage_gt(p, data) == p > Get(data, "page_count", 1)

\* Line 1596: page >= data.get("page_count", 1)
IsLastPage(p, data) == p >= Get(data, "page_count", 1)

(***************************************************************************)
(* The report run: the four analyses applied to df, in the order           *)
(* print_comprehensive_report calls them.                                  *)
(***************************************************************************)
GetExerciseProgression ==
    /\ pc = "progression"
    /\ progression_data' = get_exercise_progression(df)
    /\ pc' = "last_session"
    /\ UNCHANGED <<df, last_session, periodization, exercise_evolution>>
    /\ UNCHANGED <<ingest_vars, stats, cycle_vars, fetch_vars>>

GetLastSessionOnly ==
    /\ pc = "last_session"
    /\ last_session' = get_last_session_only(df)
    /\ pc' = "periodization"
    /\ UNCHANGED <<df, progression_data, periodization, exercise_evolution>>
    /\ UNCHANGED <<ingest_vars, stats, cycle_vars, fetch_vars>>

DetectPlateausAndPeriodization ==
    /\ pc = "periodization"
    /\ periodization' =
           detect_plateaus_and_periodization(progression_data, DictKeys(df))
    /\ pc' = "evolution"
    /\ UNCHANGED <<df, progression_data, last_session, exercise_evolution>>
    /\ UNCHANGED <<ingest_vars, stats, cycle_vars, fetch_vars>>

AnalyzeExerciseEvolution ==
    /\ pc = "evolution"
    /\ exercise_evolution' = analyze_exercise_evolution(df)
    /\ pc' = "done"
    /\ UNCHANGED <<df, progression_data, last_session, periodization>>
    /\ UNCHANGED <<ingest_vars, stats, cycle_vars, fetch_vars>>

Next ==
    \/ GetExerciseProgression
    \/ GetLastSessionOnly
    \/ DetectPlateausAndPeriodization
    \/ AnalyzeExerciseEvolution

(***************************************************************************)
(* latest_session_stats applied to a frame                                 *)
(***************************************************************************)
LatestSessionStats ==
    /\ pc = "latest_session_stats"
    /\ stats' = latest_session_stats(df)
    /\ pc' = "done"
    /\ UNCHANGED <<df, progression_data, last_session, periodization,
                   exercise_evolution, ingest_vars, cycle_vars, fetch_vars>>

(***************************************************************************)
(* main, modes analyze and both: the file is read, normalised and filtered *)
(* before the report.  Each step ends the run when it leaves no rows       *)
(* (lines 3565-3567, 3573-3575, 3580-3582).  outcome is "running",         *)
(* "returned" (main returned), "SystemExit(1)" or "ValueError" (the        *)
(* traceback of an exception nothing catches).                             *)
(***************************************************************************)
Continue(rows, next_pc) ==
    /\ df' = rows
    /\ outcome' = IF Len(rows) = 0 THEN "returned" ELSE "running"
    /\ pc' = IF Len(rows) = 0 THEN "ended" ELSE next_pc

EventsToDf ==
    /\ pc = "events_to_df"
    /\ LET result == events_to_df(infile)
       IN  IF result.raised = ""
           THEN Continue(result.rows, "filter_recent_data")
           ELSE /\ df' = <<>>
                /\ outcome' = IF result.raised = "SystemExit"
                              THEN "SystemExit(1)" ELSE result.raised
                /\ pc' = "ended"
    /\ UNCHANGED <<infile, now, progression_data, last_session, periodization,
                   exercise_evolution, stats, cycle_vars, fetch_vars>>

FilterRecentData ==
    /\ pc = "filter_recent_data"
    /\ Continue(filter_recent_data(df, FilterDays, now),
                "filter_excluded_exercises")
    /\ UNCHANGED <<infile, now, progression_data, last_session, periodization,
                   exercise_evolution, stats, cycle_vars, fetch_vars>>

FilterExcludedExercises ==
    /\ pc = "filter_excluded_exercises"
    /\ Continue(filter_excluded_exercises(df), "progression")
    /\ UNCHANGED <<infile, now, progression_data, last_session, periodization,
                   exercise_evolution, stats, cycle_vars, fetch_vars>>

NextIngest ==
    \/ EventsToDf
    \/ FilterRecentData
    \/ FilterExcludedExercises

(***************************************************************************)
(* Cycle tracking: the user logs workouts, get_next_workout_info predicts  *)
(* the next one from the log (print_comprehensive_report, lines 2093-2099).*)
(* performed is the index in CYCLE_PATTERN of the day the user did last.   *)
(***************************************************************************)
MaxWorkouts == 6      \* workouts logged in a run

\* the cycle day that follows the one performed last
DayAfter(day, cfg) == (day + 1) % Len(cfg.cycle_pattern)

\* the routine titles mapped to a cycle day; a rest day has none
TrainingTitles(cfg, day) ==
    {t \in DOMAIN cfg.routine_title_mapping : cfg.routine_title_mapping[t] = day}

HasRestIndicator(title) ==
    \E k \in DOMAIN rest_day_indicators :
        Contains(Lower(Chars(title)), rest_day_indicators[k])

\* the titles a rest day is logged under: each holds a rest indicator
RestTitles(cfg, day) ==
    {t \in {"Rest", "Cardio", cfg.cycle_pattern[day + 1]} : HasRestIndicator(t)}

\* the row of a workout of one exercise with one set
WorkoutRows(date, title, exercise) ==
    << [date |-> date, workout |-> title, exercise |-> exercise,
        weight |-> I(20), reps |-> 8, rpe |-> None, set_index |-> 0] >>

\* The user performs the next day of the cycle and logs it: a training day
\* under a title of ROUTINE_TITLE_MAPPING, a rest day under a rest title.
LogWorkout ==
    /\ pc \in {"log", "predicted"}
    /\ Len(df) < MaxWorkouts
    /\ LET day == DayAfter(performed, config)
           date == IF df = <<>> THEN 1 ELSE df[Len(df)].date + 1
       IN  /\ \/ \E title \in TrainingTitles(config, day) :
                    df' = df \o WorkoutRows(date, title, "Bench Press (Barbell)")
              \/ /\ TrainingTitles(config, day) = {}
                 /\ \E title \in RestTitles(config, day) :
                       df' = df \o WorkoutRows(date, title, "Treadmill")
           /\ performed' = day
    /\ pc' = "predict"
    /\ UNCHANGED <<config, next_workout_info, progression_data, last_session,
                   periodization, exercise_evolution, ingest_vars, stats,
                   fetch_vars>>

\* The user takes a rest day without logging it.
SkipRestDay ==
    /\ pc \in {"log", "predicted"}
    /\ TrainingTitles(config, DayAfter(performed, config)) = {}
    /\ performed' = DayAfter(performed, config)
    /\ pc' = "log"
    /\ UNCHANGED <<df, config, next_workout_info, progression_data,
                   last_session, periodization, exercise_evolution,
                   ingest_vars, stats, fetch_vars>>

\* Lines 2098-2099: the prediction; an IndexError ends the report.
GetNextWorkoutInfo ==
    /\ pc = "predict"
    /\ LET result == get_next_workout_info(df, config)
       IN  /\ next_workout_info' = result.info
           /\ outcome' = IF result.raised = "" THEN outcome ELSE result.raised
           /\ pc' = IF result.raised = "" THEN "predicted" ELSE "ended"
    /\ UNCHANGED <<df, config, performed, infile, now, progression_data,
                   last_session, periodization, exercise_evolution, stats,
                   fetch_vars>>

NextCycle ==
    \/ LogWorkout
    \/ SkipRestDay
    \/ GetNextWorkoutInfo


(***************************************************************************)
(* get_all_recent_workouts: one pass of the loop of lines 1585-1599.  A    *)
(* failed request ends the process in get_workout_events (lines 1563-1565),*)
(* otherwise the loop goes on ("fetch") or the list is returned            *)
(* ("fetched").                                                            *)
(***************************************************************************)
FetchPage ==
    /\ pc = "fetch"
    /\ requested' = Append(requested, page)
    /\ LET response == get_workout_events(server, page)
           data == response.body
           events == Get(data, "events", <<>>)
       IN  IF response.status = "error"
           THEN /\ outcome' = "SystemExit(1)"
                /\ pc' = "ended"
                /\ UNCHANGED <<page, all_events>>
           ELSE IF events = <<>>
           THEN /\ pc' = "fetched"
                /\ UNCHANGED <<page, all_events, outcome>>
           ELSE /\ all_events' = all_events \o events
                /\ IF IsLastPage(page, data)
                   THEN pc' = "fetched" /\ page' = page
                   ELSE pc' = "fetch" /\ page' = page + 1
                /\ UNCHANGED outcome
    /\ UNCHANGED <<server, df, infile, now, progression_data, last_session,
                   periodization, exercise_evolution, stats, cycle_vars>>

\* A run of the report alone: the frame is given, nothing is read, fetched
\* or predicted.
ReportOnly ==
    /\ infile = <<>>
    /\ now = <<>>
    /\ outcome = "running"
    /\ stats = <<>>
    /\ config = <<>>
    /\ performed = <<>>
    /\ next_workout_info = <<>>
    /\ server = <<>>
    /\ page = 0
    /\ all_events = <<>>
    /\ requested = <<>>

(***************************************************************************)
(* Input frames                                                            *)
(***************************************************************************)
MaxSets == 2          \* sets per session drawn freely
VerdictDates == 3     \* session dates of the exercise in a verdict frame

SeqsUpTo(S, n) == UNION {[1..k -> S] : k \in 1..n}

\* The rows of one session: sets[i] = <<weight, reps, rpe>>, set_index from 0.
SessionRows(date, exercise, sets) ==
    [i \in DOMAIN sets |->
        [date |-> date, workout |-> "Workout", exercise |-> exercise,
         weight |-> sets[i][1], reps |-> sets[i][2], rpe |-> sets[i][3],
         set_index |-> i - 1]]

\* A plain session: one set of 20 kg x 8 without RPE.
PlainSets == << <<I(20), 8, None>> >>

\* Verdict frames: one exercise on dates 1..VerdictDates; the session of
\* date vd (the oldest or the newest) is drawn freely, the other dates hold
\* a plain session.
VerdictExercises == {"Squat (Barbell)", "Chest Dip (Assisted)", "Cable Crunch"}
VerdictReps == {4, 8, 12}
VerdictRpes == {None, Some(I(0)), Some(I(7)), Some(<<36, 5>>), Some(<<15, 2>>),
                Some(I(9)), Some(<<46, 5>>), Some(<<19, 2>>)}
VerdictSets == {I(20)} \X VerdictReps \X VerdictRpes

VerdictFrame(e, vd, sets) ==
    Concat([dt \in 1..VerdictDates |->
               SessionRows(dt, e, IF dt = vd THEN sets ELSE PlainSets)])

InitVerdict ==
    /\ \E e \in VerdictExercises, vd \in {1, VerdictDates},
          sets \in SeqsUpTo(VerdictSets, MaxSets) :
            df = VerdictFrame(e, vd, sets)
    /\ pc = "progression"
    /\ progression_data = <<>>
    /\ last_session = <<>>
    /\ periodization = <<>>
    /\ exercise_evolution = <<>>
    /\ ReportOnly

SpecVerdict == InitVerdict /\ [][Next]_vars

\* Weight frames: one session of one exercise, the sets drawn from weights
\* that show several increments (0.5, 5.5, 6, 10 kg and more than 10 kg).
WeightExercises == {"Squat (Barbell)", "Chest Dip (Assisted)"}
WeightSets ==
    {I(0), I(4), <<9, 2>>, I(10), I(20)} \X {4, 13}
        \X {None, Some(I(7)), Some(<<36, 5>>), Some(<<19, 2>>)}

InitWeight ==
    /\ \E e \in WeightExercises, sets \in SeqsUpTo(WeightSets, MaxSets) :
            df = SessionRows(1, e, sets)
    /\ pc = "progression"
    /\ progression_data = <<>>
    /\ last_session = <<>>
    /\ periodization = <<>>
    /\ exercise_evolution = <<>>
    /\ ReportOnly

SpecWeight == InitWeight /\ [][Next]_vars

\* Pair frames: two exercises with the same RepRange, neither assisted, in
\* one session.
PairSets == {I(9), I(10), I(11)} \X {12} \X {None, Some(I(7))}

InitPair ==
    /\ \E s1 \in SeqsUpTo(PairSets, MaxSets), s2 \in SeqsUpTo(PairSets, MaxSets) :
            df = SessionRows(1, "Bench Press (Barbell)", s1)
                   \o SessionRows(1, "Squat (Barbell)", s2)
    /\ pc = "progression"
    /\ progression_data = <<>>
    /\ last_session = <<>>
    /\ periodization = <<>>
    /\ exercise_evolution = <<>>
    /\ ReportOnly

SpecPair == InitPair /\ [][Next]_vars

\* History frames: "Squat (Barbell)" on dates 1..nd, each session drawn from
\* a small pool, and "Bench Press (Barbell)" with a plain session on dates
\* 1..nb.  nd = nb = 0 is the empty frame.
MaxDates == 5
MaxOtherDates == 3

HistorySessions ==
    { << <<I(60), 8, None>> >>,
      << <<<<125, 2>>, 8, None>> >>,
      << <<I(0), 8, None>> >>,
      << <<I(60), 8, None>>, <<<<125, 2>>, 8, None>> >> }

HistoryFrame(nb, hist) ==
    Concat([dt \in 1..(IF nb > Len(hist) THEN nb ELSE Len(hist)) |->
               (IF dt <= nb THEN SessionRows(dt, "Bench Press (Barbell)", PlainSets)
                            ELSE <<>>)
               \o (IF dt <= Len(hist)
                   THEN SessionRows(dt, "Squat (Barbell)", hist[dt])
                   ELSE <<>>)])

InitHistory ==
    /\ \E nb \in 0..MaxOtherDates,
          hist \in UNION {[1..k -> HistorySessions] : k \in 0..MaxDates} :
            df = HistoryFrame(nb, hist)
    /\ pc = "progression"
    /\ progression_data = <<>>
    /\ last_session = <<>>
    /\ periodization = <<>>
    /\ exercise_evolution = <<>>
    /\ ReportOnly

SpecHistory == InitHistory /\ [][Next]_vars

\* Audit frames: one exercise on dates 1..AuditDates.  The 3 newest sessions
\* are drawn freely from single sets of 4 weights (steps of 0.5, 1, 1.5, 4,
\* 5 and 5.5 kg) and 6 kinds of (reps, RPE); older dates hold a plain session.
AuditDates == 4

AuditExercises == {"Squat (Barbell)", "Cable Crunch"}
AuditWeights == {I(20), <<41, 2>>, <<43, 2>>, <<51, 2>>}
AuditKinds ==
    {<<8, None>>, <<4, None>>, <<8, Some(<<48, 5>>)>>, <<12, Some(I(7))>>,
     <<8, Some(I(9))>>, <<8, Some(I(8))>>}
AuditSessions == {<< <<w, k[1], k[2]>> >> : w \in AuditWeights, k \in AuditKinds}

AuditFrame(e, free) ==
    Concat([dt \in 1..AuditDates |->
               SessionRows(dt, e, IF dt > AuditDates - 3
                                  THEN free[dt - (AuditDates - 3)]
                                  ELSE PlainSets)])

InitAudit ==
    /\ \E e \in AuditExercises, free \in [1..3 -> AuditSessions] :
            df = AuditFrame(e, free)
    /\ pc = "progression"
    /\ progression_data = <<>>
    /\ last_session = <<>>
    /\ periodization = <<>>
    /\ exercise_evolution = <<>>
    /\ ReportOnly

SpecAudit == InitAudit /\ [][Next]_vars

\* Program frames: the first k names of ExerciseNames, each with one of 6
\* histories (oldest session first, single sets of 8 reps):
\*   1  60, 60, 60 kg            stagnant
\*   2  50, 60, 60, 60 kg        stagnant, trend +20%
\*   3  60, 62.5 kg              trend +4.17%
\*   4  62.5, 60, 60 kg          trend -4%, no RPE
\*   5  62.5 (RPE 9.6), 60 kg    trend -4%, high RPE
\*   6  50, 51 kg                trend exactly +2%
\* counts[j] exercises get history j; counts all 0 is the empty frame.
OneSet(w, rpe) == << <<w, 8, rpe>> >>

ProgramHistories ==
    << <<OneSet(I(60), None), OneSet(I(60), None), OneSet(I(60), None)>>,
       <<OneSet(I(50), None), OneSet(I(60), None), OneSet(I(60), None),
         OneSet(I(60), None)>>,
       <<OneSet(I(60), None), OneSet(<<125, 2>>, None)>>,
       <<OneSet(<<125, 2>>, None), OneSet(I(60), None), OneSet(I(60), None)>>,
       <<OneSet(<<125, 2>>, Some(<<48, 5>>)), OneSet(I(60), None)>>,
       <<OneSet(I(50), None), OneSet(I(51), None)>> >>

RECURSIVE SumTo(_, _)
SumTo(counts, j) == IF j = 0 THEN 0 ELSE counts[j] + SumTo(counts, j - 1)

ProgramCounts ==
    {counts \in [DOMAIN ProgramHistories -> 0..Len(ExerciseNames)] :
        SumTo(counts, Len(ProgramHistories)) <= Len(ExerciseNames)}

HistoryAt(counts, i) ==
    ProgramHistories[CHOOSE j \in DOMAIN ProgramHistories :
                         SumTo(counts, j - 1) < i /\ i <= SumTo(counts, j)]

ProgramFrame(counts) ==
    Concat([dt \in 1..4 |->
        Concat([i \in 1..SumTo(counts, Len(ProgramHistories)) |->
            IF dt <= Len(HistoryAt(counts, i))
            THEN SessionRows(dt, ExerciseNames[i], HistoryAt(counts, i)[dt])
            ELSE <<>>])])

InitProgram ==
    /\ \E counts \in ProgramCounts : df = ProgramFrame(counts)
    /\ pc = "progression"
    /\ progression_data = <<>>
    /\ last_session = <<>>
    /\ periodization = <<>>
    /\ exercise_evolution = <<>>
    /\ ReportOnly

SpecProgram == InitProgram /\ [][Next]_vars

\* Decline frames: "Squat (Barbell)" on dates 1..DeclineDates.  The newest
\* session is at 57.5, 59, 60 or 62.5 kg, every other one at 60 kg.  The RPEs
\* of the sets of the 3 newest sessions are drawn from DeclineRpes (session
\* means none, 0, 8.5, 9, 9.5 and 9.5); the older sessions are all without
\* RPE or all at RPE 9.6.
DeclineDates == 4

DeclineNewest == {<<115, 2>>, I(59), I(60), <<125, 2>>}
DeclineRpes ==
    {<<None>>, <<Some(I(0))>>, <<Some(<<17, 2>>)>>, <<Some(I(9))>>,
     <<Some(<<19, 2>>)>>, <<Some(I(9)), Some(I(10))>>}
DeclineOlder == {None, Some(<<48, 5>>)}

DeclineFrame(newest, rpes, older) ==
    Concat([dt \in 1..DeclineDates |->
        SessionRows(dt, "Squat (Barbell)",
            IF dt > DeclineDates - 3
            THEN [k \in DOMAIN rpes[dt - (DeclineDates - 3)] |->
                     <<IF dt = DeclineDates THEN newest ELSE I(60), 8,
                       rpes[dt - (DeclineDates - 3)][k]>>]
            ELSE OneSet(I(60), older))])

InitDecline ==
    /\ \E newest \in DeclineNewest, rpes \in [1..3 -> DeclineRpes],
          older \in DeclineOlder :
            df = DeclineFrame(newest, rpes, older)
    /\ pc = "progression"
    /\ progression_data = <<>>
    /\ last_session = <<>>
    /\ periodization = <<>>
    /\ exercise_evolution = <<>>
    /\ ReportOnly

SpecDecline == InitDecline /\ [][Next]_vars

\* Stats frames: an exercise with a plain session on date 1 and a freely
\* drawn session on date 2, alone or next to a plain session of another
\* exercise; the weights differ between the sets and include 0.
StatsSets == {I(0), I(60), <<125, 2>>} \X {6, 8} \X {None, Some(I(8))}

StatsFrame(e, sets, other) ==
    SessionRows(1, e, PlainSets) \o SessionRows(2, e, sets)
    \o (IF other THEN SessionRows(2, "Pull Up", PlainSets) ELSE <<>>)

InitStats ==
    /\ \E e \in {"Squat (Barbell)", "Cable Crunch"},
          sets \in SeqsUpTo(StatsSets, MaxSets),
          other \in BOOLEAN :
            df = StatsFrame(e, sets, other)
    /\ pc = "latest_session_stats"
    /\ progression_data = <<>>
    /\ last_session = <<>>
    /\ periodization = <<>>
    /\ exercise_evolution = <<>>
    /\ ReportOnly

SpecStats == InitStats /\ [][LatestSessionStats]_vars

\* Event files.  The sets of an exercise are listed out of index order and
\* hold a warm-up; weight, reps and RPE are present, null or absent.
MaxEvents == 2        \* events in a file

SquatExercise ==
    [title |-> "Squat (Barbell)",
     sets |-> << [type |-> "normal", index |-> 2, weight_kg |-> Some(<<125, 2>>),
                  reps |-> Some(6), rpe |-> Some(I(9))],
                 [type |-> "warmup", index |-> 0, weight_kg |-> Some(I(20)),
                  reps |-> Some(10)],
                 [type |-> "normal", index |-> 1, weight_kg |-> Some(I(60)),
                  reps |-> Some(8)] >>]

EventExercises ==
    { <<SquatExercise>>,
      << [title |-> "Treadmill Walk",
          sets |-> << [type |-> "normal", index |-> 0] >>] >>,
      << [title |-> "TREADMILL",
          sets |-> << [type |-> "normal", index |-> 0, weight_kg |-> None,
                       reps |-> None, rpe |-> None] >>] >>,
      << [title |-> "Treadmill",
          sets |-> << [type |-> "normal", index |-> 0, weight_kg |-> Some(I(0)),
                       reps |-> Some(0), rpe |-> Some(I(0))] >>],
         SquatExercise >> }

\* start times: inside the window, 90 days before 10 June, 91 days before,
\* and the day after
Events ==
    {[type |-> "updated",
      workout |-> [start_time |-> st, title |-> "Workout", exercises |-> x]] :
        st \in {"2025-06-09T18:30:00Z", "2025-03-12T06:00:00Z",
                "2025-03-11T23:59:59Z", "2025-06-11T06:00:00+02:00"},
        x \in EventExercises}
    \cup {[type |-> "updated",
           workout |-> [start_time |-> "09/06/2025", title |-> "Workout",
                        exercises |-> <<SquatExercise>>]],
          [type |-> "updated",
           workout |-> [title |-> "Workout", exercises |-> <<SquatExercise>>]],
          [type |-> "deleted"]}

EventFiles ==
    {[status |-> "ok", events |-> evs] :
        evs \in {<<>>} \cup SeqsUpTo(Events, MaxEvents)}
    \cup {[status |-> "missing", events |-> <<>>],
          [status |-> "invalid JSON", events |-> <<>>]}

InitIngest ==
    /\ infile \in EventFiles
    \* 10 June 2025, at midnight and at 12:30
    /\ now \in {[date |-> 161, seconds |-> 0], [date |-> 161, seconds |-> 45000]}
    /\ outcome = "running"
    /\ pc = "events_to_df"
    /\ df = <<>>
    /\ progression_data = <<>>
    /\ last_session = <<>>
    /\ periodization = <<>>
    /\ exercise_evolution = <<>>
    /\ stats = <<>>
    /\ config = <<>>
    /\ performed = <<>>
    /\ next_workout_info = <<>>
    /\ server = <<>>
    /\ page = 0
    /\ all_events = <<>>
    /\ requested = <<>>

SpecIngest == InitIngest /\ [][NextIngest]_vars

\* Cycle runs: a configuration, an empty log and the day performed last.
InitCycle ==
    /\ config \in {RoutineConfig, ThreeDayConfig}
    /\ performed \in 0..(Len(config.cycle_pattern) - 1)
    /\ next_workout_info = <<>>
    /\ df = <<>>
    /\ pc = "log"
    /\ progression_data = <<>>
    /\ last_session = <<>>
    /\ periodization = <<>>
    /\ exercise_evolution = <<>>
    /\ infile = <<>>
    /\ now = <<>>
    /\ outcome = "running"
    /\ stats = <<>>
    /\ server = <<>>
    /\ page = 0
    /\ all_events = <<>>
    /\ requested = <<>>

SpecCycle == InitCycle /\ [][NextCycle]_vars

\* Arbitrary logs: up to MaxLogged workouts on consecutive dates, each under
\* any title and with any exercise.
MaxLogged == 2        \* workouts of an arbitrary log

LoggedWorkouts ==
    {"Workout", "Rest", "Cardio", "Day 3 - Rest / Treadmill",
     "Day 1 - Upper (Push) {flexed biceps}", "Push Day"}
    \X {"Bench Press (Barbell)", "Cable Crunch", "Treadmill"}

AnyLog(workouts) ==
    Concat([i \in DOMAIN workouts |->
               WorkoutRows(i, workouts[i][1], workouts[i][2])])

InitAnyLog ==
    /\ config \in {RoutineConfig, ThreeDayConfig}
    /\ performed = <<>>
    /\ next_workout_info = <<>>
    /\ \E workouts \in {<<>>} \cup SeqsUpTo(LoggedWorkouts, MaxLogged) :
          df = AnyLog(workouts)
    /\ pc = "predict"
    /\ progression_data = <<>>
    /\ last_session = <<>>
    /\ periodization = <<>>
    /\ exercise_evolution = <<>>
    /\ infile = <<>>
    /\ now = <<>>
    /\ outcome = "running"
    /\ stats = <<>>
    /\ server = <<>>
    /\ page = 0
    /\ all_events = <<>>
    /\ requested = <<>>

SpecAnyLog == InitAnyLog /\ [][GetNextWorkoutInfo]_vars

\* Servers: MaxPages pages, each a failed request, a body without events (the
\* key absent or the list empty) or a body with one or two events and a
\* page_count that is absent or any number up to MaxPages.
MaxPages == 3         \* pages of a server

\* the kinds of answer: <<"error", 0, 0>>, <<"no events", 0, 0>> for a body
\* without the key, and <<"events", n, c>> for a body with n events and the
\* page_count c, c = 0 standing for a body without page_count
Response(p, kind) ==
    LET events == [i \in 1..kind[2] |-> [id |-> <<p, i>>]]
    IN  IF kind[1] = "error" THEN [status |-> "error"]
        ELSE IF kind[1] = "no events"
        THEN [status |-> "ok", body |-> [page |-> p]]
        ELSE IF kind[3] = 0
        THEN [status |-> "ok", body |-> [page |-> p, events |-> events]]
        ELSE [status |-> "ok",
              body |-> [page |-> p, events |-> events, page_count |-> kind[3]]]

Servers ==
    LET kinds == {<<"error", 0, 0>>, <<"no events", 0, 0>>, <<"events", 0, 0>>}
                 \cup {<<"events", n, c>> : n \in 1..2, c \in 0..MaxPages}
    IN  {[p \in 1..MaxPages |-> Response(p, k[p])] : k \in [1..MaxPages -> kinds]}

InitFetch ==
    /\ server \in Servers
    /\ page = 1
    /\ all_events = <<>>
    /\ requested = <<>>
    /\ pc = "fetch"
    /\ outcome = "running"
    /\ df = <<>>
    /\ progression_data = <<>>
    /\ last_session = <<>>
    /\ periodization = <<>>
    /\ exercise_evolution = <<>>
    /\ infile = <<>>
    /\ now = <<>>
    /\ stats = <<>>
    /\ config = <<>>
    /\ performed = <<>>
    /\ next_workout_info = <<>>

\* the loop runs on as long as it has a pass to make
SpecFetch == InitFetch /\ [][FetchPage]_vars /\ WF_vars(FetchPage)

(***************************************************************************)
(* Properties.  The sessions are read from df itself: a session is the     *)
(* rows of one exercise on one date.                                       *)
(***************************************************************************)
RowsOf(e, dt) == SelectSeq(df, LAMBDA r : r.exercise = e /\ r.date = dt)

\* the RPE values recorded on the sets of a session (0 is a recorded value)
Recorded(rows) == {Val(rows[i].rpe) : i \in {k \in DOMAIN rows : ~IsNone(rows[k].rpe)}}

HasPeakAtLeast(rows, x) == \E v \in Recorded(rows) : RGe(v, x)
HasPeakAtMost(rows, x) == Recorded(rows) # {} /\ \A v \in Recorded(rows) : RLe(v, x)

RepsTotal(rows) == LET Sum[i \in 0..Len(rows)] ==
                           IF i = 0 THEN 0 ELSE Sum[i - 1] + rows[i].reps
                   IN  Sum[Len(rows)]

\* the class of a verdict string
VerdictClass(v) ==
    CASE v \in {"too heavy", "too heavy (RPE)"} -> "too_heavy"
      [] v \in {"too light", "too light (RPE)"} -> "too_light"
      [] v = "optimal" -> "optimal"
      [] v = "in range" -> "in_range"
      [] v = "no target" -> "no_target"

\* the class by mean reps alone
RepClass(rows, range) ==
    IF RepsTotal(rows) < range[1] * Len(rows) THEN "too_heavy"
    ELSE IF RepsTotal(rows) > range[2] * Len(rows) THEN "too_light"
    ELSE "in_range"

LastDone == pc \in {"periodization", "evolution", "done"}
EvolutionDone == pc = "done"

\* every judgment the two analyses produced: the rows of the session, the
\* class of the verdict, and the peak and final RPE of the summary built
Judged ==
    (IF LastDone /\ Len(df) > 0
     THEN {[rows |-> RowsOf(last_session.exercises[i].name, last_session.date),
            class |-> VerdictClass(last_session.exercises[i].verdict),
            name |-> last_session.exercises[i].name,
            peak_rpe |-> last_session.exercises[i].peak_rpe,
            final_rpe |-> last_session.exercises[i].final_rpe,
            by |-> "last_session"] : i \in DOMAIN last_session.exercises}
     ELSE {})
    \cup
    (IF EvolutionDone
     THEN UNION {{[rows |-> RowsOf(e, exercise_evolution[e].sessions[i].date),
                   class |-> VerdictClass(exercise_evolution[e].sessions[i].verdict),
                   name |-> e,
                   peak_rpe |-> exercise_evolution[e].sessions[i].peak_rpe,
                   final_rpe |-> exercise_evolution[e].sessions[i].final_rpe,
                   by |-> "evolution"] :
                     i \in DOMAIN exercise_evolution[e].sessions} :
                 e \in DOMAIN exercise_evolution}
     ELSE {})

\* C1: a session of an exercise with a RepRange whose peak RPE is >= 9.5 is
\* judged too_heavy, whatever its mean reps and whether or not the exercise
\* is assisted.
C1_PeakRpeTooHeavy ==
    \A j \in Judged :
        (j.name \in DOMAIN REP_RANGE /\ HasPeakAtLeast(j.rows, <<19, 2>>))
            => j.class = "too_heavy"

\* C1 witness: both analyses judged an assisted session with peak RPE >= 9.5
\* and mean reps inside its RepRange.
C1_Witness ==
    \A b \in {"last_session", "evolution"} :
        \E j \in Judged :
            /\ j.by = b
            /\ j.name = "Chest Dip (Assisted)"
            /\ HasPeakAtLeast(j.rows, <<19, 2>>)
            /\ RepClass(j.rows, REP_RANGE[j.name]) = "in_range"
            /\ j.class = "too_heavy"

\* C2 (as claimed): a session of an exercise with a RepRange whose recorded
\* peak RPE is <= 7.0, a recorded 0 included, is judged too_light.
C2_LowRpeTooLight ==
    \A j \in Judged :
        (j.name \in DOMAIN REP_RANGE /\ HasPeakAtMost(j.rows, <<7, 1>>))
            => j.class = "too_light"

\* C2 failing input: a single set of "Squat (Barbell)" with a recorded RPE
\* of 0 and 8 reps was judged in_range.
C2_FailingInput ==
    \E j \in Judged :
        /\ j.name = "Squat (Barbell)"
        /\ Len(j.rows) = 1
        /\ j.rows[1].rpe = Some(I(0))
        /\ j.rows[1].reps = 8
        /\ j.class = "in_range"

\* C3: an exercise that is not a key of REP_RANGE gets the verdict no_target
\* with the fixed suggestion and no suggested weight, whatever the RPE and
\* the reps of its session.
C3_NoTarget ==
    /\ \A j \in Judged : j.name \notin DOMAIN REP_RANGE => j.class = "no_target"
    /\ (LastDone /\ Len(df) > 0) =>
          \A i \in DOMAIN last_session.exercises :
              LET x == last_session.exercises[i]
              IN  x.name \notin DOMAIN REP_RANGE =>
                    /\ x.verdict = "no target"
                    /\ x.suggestion.text = "add rep target to rep_rules.py"
                    /\ IsNone(x.suggestion.new_weight)
                    /\ IsNone(x.suggestion.weight_shown)
                    /\ IsNone(x.target_range)

\* C3 witness: the latest session of "Cable Crunch" has a peak RPE >= 9.5
\* and mean reps that a (6, 10) or (8, 12) target would call too few, and was
\* judged no_target.
C3_Witness ==
    \E j \in Judged :
        /\ j.by = "last_session"
        /\ j.name = "Cable Crunch"
        /\ HasPeakAtLeast(j.rows, <<19, 2>>)
        /\ RepsTotal(j.rows) < 6 * Len(j.rows)
        /\ j.class = "no_target"

InGap(j) ==
    /\ ~IsNone(j.peak_rpe)
    /\ RGt(Val(j.peak_rpe), <<7, 1>>)
    /\ RLt(Val(j.peak_rpe), <<19, 2>>)

OptimalByRpe(j) ==
    \/ ~IsNone(j.final_rpe) /\ RGe(Val(j.final_rpe), <<9, 1>>)
    \/ RGe(Val(j.peak_rpe), <<15, 2>>) /\ RLe(Val(j.peak_rpe), <<9, 1>>)

C8_RepsOnly ==
    \A j \in Judged :
        (j.name \in DOMAIN REP_RANGE /\ Recorded(j.rows) = {}) =>
            j.class = RepClass(j.rows, REP_RANGE[j.name])

\* C8 witness: both analyses judged a session without RPE whose mean reps
\* equal min_reps exactly (sets of 4 and 8 reps against (6, 10)) in_range.
C8_Witness ==
    \A b \in {"last_session", "evolution"} :
        \E j \in Judged :
            /\ j.by = b
            /\ j.name = "Squat (Barbell)"
            /\ Recorded(j.rows) = {}
            /\ Len(j.rows) = 2
            /\ RepsTotal(j.rows) = 6 * Len(j.rows)
            /\ j.class = "in_range"

(***************************************************************************)
(* Properties of the suggested next weight                                 *)
(***************************************************************************)
\* the entries of the latest session, once it has been analysed
Entries ==
    IF LastDone /\ Len(df) > 0
    THEN {last_session.exercises[i] : i \in DOMAIN last_session.exercises}
    ELSE {}

Advised == {x \in Entries : ~IsNone(x.suggestion.new_weight)}

EntryRows(x) == RowsOf(x.name, last_session.date)

MeanWeight(rows) == RDiv(RSum(Column(rows, "weight")), I(Len(rows)))

Assisted(name) == name = "Chest Dip (Assisted)"

\* the weight must go down: too_heavy when not assisted, too_light when assisted
MustGoDown(x) ==
    \/ VerdictClass(x.verdict) = "too_heavy" /\ ~Assisted(x.name)
    \/ VerdictClass(x.verdict) = "too_light" /\ Assisted(x.name)

\* C4 (as claimed): for a mean weight > 0 the suggested next weight is
\* strictly below the mean weight when the weight must go down and strictly
\* above it when the weight must go up.
C4_StrictDirection ==
    \A x \in Advised :
        LET mean == MeanWeight(EntryRows(x))
            w == Val(x.suggestion.new_weight)
        IN  RGt(mean, I(0)) =>
                IF MustGoDown(x) THEN RLt(w, mean) ELSE RGt(w, mean)

\* C4 failing input: "Squat (Barbell)" with the sets 4.0 kg and 4.5 kg, both
\* at RPE 7.0, is judged too_light and told to "increase" to 4.0 kg, below
\* its mean weight of 4.25 kg.
C4_FailingInput ==
    \E x \in Advised :
        /\ x.name = "Squat (Barbell)"
        /\ Column(EntryRows(x), "weight") = <<I(4), <<9, 2>>>>
        /\ Column(EntryRows(x), "rpe") = <<Some(I(7)), Some(I(7))>>
        /\ VerdictClass(x.verdict) = "too_light"
        /\ x.suggestion.text = "increase to {new_weight:.1f}kg next time (peak RPE {peak_rpe:.1f} too low)"
        /\ x.suggestion.weight_shown = Some(40)

IsMultiple(w, step) == RDiv(w, step)[2] = 1

\* the differences between two distinct weights of a set of weights
Gaps(W) == {RSub(b, a) : <<a, b>> \in {p \in W \X W : RLt(p[1], p[2])}}

\* the smallest increment between the distinct weights of the sets, 2.5 kg
\* when there are fewer than two distinct weights
ObservedIncrement(rows) ==
    LET W == Range(Column(rows, "weight"))
    IN  IF Gaps(W) = {} THEN <<5, 2>> ELSE RMinSet(Gaps(W))

Factors(x) == IF MustGoDown(x) THEN {<<9, 10>>, <<19, 20>>}
                               ELSE {<<21, 20>>, <<11, 10>>}

\* C5 (as claimed): the suggested next weight is the target weight (mean
\* weight x change factor) rounded to a multiple of the smallest increment
\* observed between the distinct weights of the sets, 2.5 kg when none is
\* observed.
C5_RoundedToObserved ==
    \A x \in Advised :
        LET inc == ObservedIncrement(EntryRows(x))
            w == Val(x.suggestion.new_weight)
        IN  /\ IsMultiple(w, inc)
            /\ \E f \in Factors(x) :
                   RLe(RAbs(RSub(w, RMul(MeanWeight(EntryRows(x)), f))),
                       RMul(inc, <<1, 2>>))

\* the increment the recommendation works with: the smallest difference of
\* at most 10 kg between two distinct positive weights, 2.5 kg without one
UsedIncrement(rows) ==
    LET W == {v \in Range(Column(rows, "weight")) : RGt(v, I(0))}
        small == {g \in Gaps(W) : RLe(g, <<10, 1>>)}
    IN  IF small = {} THEN <<5, 2>> ELSE RMinSet(small)

\* the rounding step: 2.5 kg for an increment of at least 2.5 kg, else 1 kg
Step(inc) == IF RGe(inc, <<5, 2>>) THEN <<5, 2>> ELSE <<1, 1>>

MaxSteps == 40

\* C5 (amended): the suggested next weight is the target weight rounded to
\* the nearest multiple of 2.5 kg when the increment is at least 2.5 kg (or
\* none is observed) and to the nearest whole kg when it is smaller; when
\* that rounded weight is less than half an increment away from the mean
\* weight, the suggestion is instead the mean weight moved by one increment
\* in the required direction, not below 0.
C5_RoundedToStep ==
    \A x \in Advised :
        LET rows == EntryRows(x)
            mean == MeanWeight(rows)
            inc == UsedIncrement(rows)
            step == Step(inc)
            w == Val(x.suggestion.new_weight)
        IN  \E f \in Factors(x), k \in 0..MaxSteps :
               LET r == RMul(I(k), step)
               IN  /\ RLe(RAbs(RSub(r, RMul(mean, f))), RMul(step, <<1, 2>>))
                   /\ IF RLt(RAbs(RSub(r, mean)), RMul(inc, <<1, 2>>))
                      THEN w = IF MustGoDown(x) THEN RMax(I(0), RSub(mean, inc))
                                                ELSE RAdd(mean, inc)
                      ELSE w = r

\* C5 witness: sets of 10 kg and 20 kg (increment 10 kg, mean 15 kg) get a
\* suggestion that is no multiple of 10 kg, and sets of 4 kg and 4.5 kg get a
\* whole number of kg: both roundings and the one-increment move occur.
C5_Witness ==
    \E x \in Advised :
        /\ Range(Column(EntryRows(x), "weight")) \in {{I(10), I(20)}, {I(4), <<9, 2>>}}
        /\ Len(EntryRows(x)) = 2
        /\ Range(Column(EntryRows(x), "weight")) = {I(10), I(20)}
             => Val(x.suggestion.new_weight) \in {I(5), I(25)}
        /\ Range(Column(EntryRows(x), "weight")) = {I(4), <<9, 2>>}
             => IsMultiple(Val(x.suggestion.new_weight), I(1))

(***************************************************************************)
(* Determinism of the verdict                                              *)
(***************************************************************************)
SameSummary(x, y) ==
    /\ x.avg_weight = y.avg_weight
    /\ x.avg_reps = y.avg_reps
    /\ x.avg_rpe = y.avg_rpe
    /\ x.peak_rpe = y.peak_rpe
    /\ x.final_rpe = y.final_rpe
    /\ x.total_volume = y.total_volume
    /\ x.num_sets = y.num_sets
    /\ x.target_range = y.target_range
    /\ Assisted(x.name) = Assisted(y.name)

SameWeights(x, y) ==
    Range(Column(EntryRows(x), "weight")) = Range(Column(EntryRows(y), "weight"))

\* C6 (as claimed): two sessions with identical summary fields, the same
\* RepRange and the same assisted flag get an identical verdict, suggested
\* next weight included.
C6_SameSummarySameVerdict ==
    \A x \in Entries, y \in Entries :
        SameSummary(x, y) =>
            x.verdict = y.verdict /\ x.suggestion = y.suggestion

\* C6 (amended): two such sessions get the same verdict class and the same
\* suggestion wording; the suggested next weight is the same as well when
\* the sets of the two sessions use the same distinct weights.
C6_Deterministic ==
    \A x \in Entries, y \in Entries :
        SameSummary(x, y) =>
            /\ x.verdict = y.verdict
            /\ x.suggestion.text = y.suggestion.text
            /\ x.suggestion.rpe_shown = y.suggestion.rpe_shown
            /\ SameWeights(x, y) => x.suggestion = y.suggestion

\* C6 witness: two exercises with equal summaries whose sets use the same
\* two weights in a different order, both given a suggested weight.
C6_Witness ==
    \E x \in Advised, y \in Advised :
        /\ x.name # y.name
        /\ SameSummary(x, y)
        /\ SameWeights(x, y)
        /\ Column(EntryRows(x), "weight") = <<I(9), I(11)>>
        /\ Column(EntryRows(y), "weight") = <<I(11), I(9)>>
        /\ x.suggestion = y.suggestion

(***************************************************************************)
(* Properties of the progression and audit outputs                         *)
(***************************************************************************)
AllExercises == {df[i].exercise : i \in DOMAIN df}

DatesOf(e) == {df[i].date : i \in {k \in DOMAIN df : df[k].exercise = e}}

ProgressionDone == pc \in {"last_session", "periodization", "evolution", "done"}

\* C9: an exercise is in the progression output iff it has at least 2
\* distinct session dates and in the audit output iff it has at least 3;
\* the others are omitted, and an empty frame gives empty outputs.
C9_Omission ==
    /\ ProgressionDone =>
          DOMAIN progression_data =
              {e \in AllExercises : Cardinality(DatesOf(e)) >= 2}
    /\ EvolutionDone =>
          DOMAIN exercise_evolution =
              {e \in AllExercises : Cardinality(DatesOf(e)) >= 3}

\* C9 witness: after both analyses, "Bench Press (Barbell)" with one date is
\* in neither output and "Squat (Barbell)" with two dates is in the
\* progression output only.
C9_Witness ==
    /\ EvolutionDone
    /\ Cardinality(DatesOf("Bench Press (Barbell)")) = 1
    /\ Cardinality(DatesOf("Squat (Barbell)")) = 2
    /\ DOMAIN progression_data = {"Squat (Barbell)"}
    /\ DOMAIN exercise_evolution = {}

MinInt(S) == CHOOSE x \in S : \A y \in S : x <= y

\* the (at most n) newest of a set of dates
RECURSIVE Newest(_, _)
Newest(D, n) == IF n = 0 \/ D = {} THEN {}
                ELSE {MaxInt(D)} \cup Newest(D \ {MaxInt(D)}, n - 1)

PctChange(from, to) ==
    IF from = I(0) THEN I(0) ELSE RDiv(RMul(I(100), RSub(to, from)), from)

\* C10: weight_change is the newest mean weight minus the second newest,
\* weight_change_pct is that change in percent of the second newest (0 for a
\* zero baseline), and trend_change_pct is the percentage change from the
\* oldest of the 4 newest sessions to the newest when there are at least 3
\* sessions (0 for a zero oldest weight), weight_change_pct with exactly 2.
C10_ProgressionMetrics ==
    ProgressionDone =>
        \A e \in DOMAIN progression_data :
            LET window == Newest(DatesOf(e), 4)
                newest == MaxInt(window)
                second == MaxInt(window \ {newest})
                oldest == MinInt(window)
                avg(dt) == MeanWeight(RowsOf(e, dt))
                p == progression_data[e]
            IN  /\ p.weight_change = RSub(avg(newest), avg(second))
                /\ p.weight_change_pct = PctChange(avg(second), avg(newest))
                /\ p.trend_change_pct =
                       IF Cardinality(window) >= 3
                       THEN PctChange(avg(oldest), avg(newest))
                       ELSE PctChange(avg(second), avg(newest))

\* C10 witness: "Squat (Barbell)" with mean weights 0, 60, 60, 60, 62.5 kg
\* on dates 1..5 has weight_change 2.5 kg and both percentages 25/6 (4.17%):
\* the session of date 1 is outside the window.
C10_Witness ==
    /\ ProgressionDone
    /\ DatesOf("Squat (Barbell)") = 1..5
    /\ [dt \in 1..5 |-> MeanWeight(RowsOf("Squat (Barbell)", dt))]
           = <<I(0), I(60), I(60), I(60), <<125, 2>>>>
    /\ progression_data["Squat (Barbell)"].weight_change = <<5, 2>>
    /\ progression_data["Squat (Barbell)"].weight_change_pct = <<25, 6>>
    /\ progression_data["Squat (Barbell)"].trend_change_pct = <<25, 6>>

(***************************************************************************)
(* Stagnation                                                              *)
(***************************************************************************)
\* C11: is_stagnant is true iff the exercise has at least 3 sessions and the
\* mean weights of its 3 newest sessions are all equal; with 2 sessions it
\* is never stagnant and the 4th newest session has no influence.
C11_Stagnation ==
    ProgressionDone =>
        \A e \in DOMAIN progression_data :
            LET recent == Newest(DatesOf(e), 3)
            IN  progression_data[e].is_stagnant <=>
                    /\ Cardinality(DatesOf(e)) >= 3
                    /\ \A d1, d2 \in recent :
                           MeanWeight(RowsOf(e, d1)) = MeanWeight(RowsOf(e, d2))

\* C11 witness: a stagnant exercise whose 4th newest session has another
\* mean weight than its 3 newest.
C11_Witness ==
    /\ ProgressionDone
    /\ \E e \in DOMAIN progression_data :
          LET window == Newest(DatesOf(e), 4)
          IN  /\ progression_data[e].is_stagnant
              /\ Cardinality(window) = 4
              /\ MeanWeight(RowsOf(e, MinInt(window)))
                     # MeanWeight(RowsOf(e, MaxInt(window)))


(***************************************************************************)
(* Decision audit.  A transition is a pair of consecutive sessions of the  *)
(* audit output; the decision recorded for it is found by its two dates.   *)
(***************************************************************************)
AuditPairs ==
    IF EvolutionDone
    THEN UNION {{[name |-> e,
                  older |-> exercise_evolution[e].sessions[i + 1],
                  newer |-> exercise_evolution[e].sessions[i]] :
                    i \in 1..(Len(exercise_evolution[e].sessions) - 1)} :
                e \in DOMAIN exercise_evolution}
    ELSE {}

InList(p, list) ==
    \E k \in DOMAIN list :
        list[k].from_date = p.older.date /\ list[k].to_date = p.newer.date

IsGood(p) == InList(p, exercise_evolution[p.name].good_decisions)
IsMissed(p) == InList(p, exercise_evolution[p.name].missed_opportunities)

\* newer mean weight minus older mean weight, from the rows
Delta(p) ==
    RSub(MeanWeight(RowsOf(p.name, p.newer.date)),
         MeanWeight(RowsOf(p.name, p.older.date)))

ActualOf(p) ==
    IF RGt(Delta(p), <<1, 2>>) THEN "increased"
    ELSE IF RLt(Delta(p), <<-1, 2>>) THEN "decreased"
    ELSE "maintained"

OlderClass(p) == VerdictClass(p.older.verdict)

\* C12 (as claimed): after a too_heavy session the transition is good iff
\* the weight was decreased, after a too_light session iff it was increased;
\* every other action, 'maintained' included, is a missed opportunity.
C12_ExactMatch ==
    \A p \in AuditPairs :
        /\ OlderClass(p) = "too_heavy" =>
              /\ IsGood(p) <=> ActualOf(p) = "decreased"
              /\ IsMissed(p) <=> ActualOf(p) # "decreased"
        /\ OlderClass(p) = "too_light" =>
              /\ IsGood(p) <=> ActualOf(p) = "increased"
              /\ IsMissed(p) <=> ActualOf(p) # "increased"

NewerPeakAtMost(p, x) ==
    ~IsNone(p.newer.peak_rpe) /\ RLe(Val(p.newer.peak_rpe), x)
NewerPeakAtLeast(p, x) ==
    ~IsNone(p.newer.peak_rpe) /\ RGe(Val(p.newer.peak_rpe), x)

\* the actions the audit accepts after a too_heavy or too_light session
Accepted(p) ==
    IF OlderClass(p) = "too_heavy"
    THEN \/ ActualOf(p) \in {"decreased", "maintained"}
         \/ ActualOf(p) = "increased" /\ NewerPeakAtMost(p, <<15, 2>>)
    ELSE \/ ActualOf(p) \in {"increased", "maintained"}
         \/ ActualOf(p) = "decreased" /\ NewerPeakAtLeast(p, <<19, 2>>)

\* C12 (amended): after a too_heavy session the transition is good iff the
\* weight was decreased, or maintained, or increased while the newer
\* session's peak RPE is at most 7.5; after a too_light session iff it was
\* increased, or maintained, or decreased while the newer session's peak RPE
\* is at least 9.5; otherwise it is a missed opportunity.
C12_LenientMatch ==
    \A p \in AuditPairs :
        OlderClass(p) \in {"too_heavy", "too_light"} =>
            /\ IsGood(p) <=> Accepted(p)
            /\ IsMissed(p) <=> ~Accepted(p)

\* C12 witness: a session with peak RPE 9.6 followed by a 5 kg decrease is a
\* good decision, and so is a too_heavy session followed by the same weight.
C12_Witness ==
    /\ \E p \in AuditPairs :
          /\ HasPeakAtLeast(RowsOf(p.name, p.older.date), <<48, 5>>)
          /\ OlderClass(p) = "too_heavy"
          /\ Delta(p) = I(-5)
          /\ IsGood(p)
    /\ \E p \in AuditPairs :
          /\ OlderClass(p) = "too_heavy"
          /\ ActualOf(p) = "maintained"
          /\ IsGood(p)

\* a decrease that a peak RPE >= 9.0 of the older or the newer session excuses
Excused(p) ==
    \/ HasPeakAtLeast(RowsOf(p.name, p.older.date), I(9))
    \/ HasPeakAtLeast(RowsOf(p.name, p.newer.date), I(9))

\* C13: after an optimal or in_range session, maintaining or increasing the
\* weight is a good decision; decreasing it is a good decision if the older
\* or the newer session has peak RPE >= 9.0 and a missed opportunity
\* otherwise.
C13_MaintainCases ==
    \A p \in AuditPairs :
        OlderClass(p) \in {"optimal", "in_range"} =>
            LET ok == \/ ActualOf(p) \in {"maintained", "increased"}
                      \/ ActualOf(p) = "decreased" /\ Excused(p)
            IN  /\ IsGood(p) <=> ok
                /\ IsMissed(p) <=> ~ok

\* C13 witness: an optimal session with peak RPE 8 followed by a decrease
\* that only the newer session's peak RPE (>= 9.0) excuses, and an in_range
\* session followed by an increase.
C13_Witness ==
    /\ \E p \in AuditPairs :
          /\ OlderClass(p) = "optimal"
          /\ ~HasPeakAtLeast(RowsOf(p.name, p.older.date), I(9))
          /\ ActualOf(p) = "decreased"
          /\ HasPeakAtLeast(RowsOf(p.name, p.newer.date), I(9))
          /\ IsGood(p)
    /\ \E p \in AuditPairs :
          /\ OlderClass(p) = "in_range"
          /\ ActualOf(p) = "increased"
          /\ IsGood(p)

\* the optimal action a verdict class calls for
OptimalFor(class) ==
    CASE class = "too_heavy" -> "decrease"
      [] class = "too_light" -> "increase"
      [] class \in {"optimal", "in_range"} -> "maintain"

PairsOf(e) == {p \in AuditPairs : p.name = e}

\* C14: the optimal action of a transition is the one the older session's
\* verdict calls for (too_heavy: decrease, too_light: increase, optimal or
\* in_range: maintain); a transition whose older session has no target is
\* in neither list and is not counted in total_decisions.
C14_OptimalFromOlder ==
    EvolutionDone =>
        \A e \in DOMAIN exercise_evolution :
            LET a == exercise_evolution[e]
                scored == {p \in PairsOf(e) : OlderClass(p) # "no_target"}
            IN  /\ \A p \in PairsOf(e) \ scored : ~IsGood(p) /\ ~IsMissed(p)
                /\ \A p \in scored : IsGood(p) \/ IsMissed(p)
                /\ \A k \in DOMAIN a.missed_opportunities :
                      \E p \in scored :
                          /\ a.missed_opportunities[k].from_date = p.older.date
                          /\ a.missed_opportunities[k].to_date = p.newer.date
                          /\ a.missed_opportunities[k].should_have
                                 = OptimalFor(OlderClass(p))
                /\ Len(a.good_decisions) + Len(a.missed_opportunities)
                       = Cardinality(scored)
                /\ a.total_decisions = Cardinality(scored)

\* C14 witness: an audited exercise without target (3 transitions, none
\* scored).
C14_Witness ==
    /\ EvolutionDone
    /\ \E e \in DOMAIN exercise_evolution :
          /\ Cardinality(PairsOf(e)) >= 2
          /\ \A p \in PairsOf(e) : OlderClass(p) = "no_target"
          /\ exercise_evolution[e].total_decisions = 0

\* the action recorded for a scored transition
RecordedAction(p) ==
    LET a == exercise_evolution[p.name]
        At(list) == CHOOSE k \in DOMAIN list :
                        /\ list[k].from_date = p.older.date
                        /\ list[k].to_date = p.newer.date
    IN  IF IsGood(p) THEN a.good_decisions[At(a.good_decisions)].action
        ELSE a.missed_opportunities[At(a.missed_opportunities)].actually_did

\* C15: the actual action is 'increased' iff the mean weight rose by more
\* than 0.5 kg, 'decreased' iff it fell by more than 0.5 kg, and
\* 'maintained' iff the change is within [-0.5, 0.5] kg, ends included.
C15_DeadBand ==
    \A p \in AuditPairs :
        IsGood(p) \/ IsMissed(p) =>
            /\ RecordedAction(p) = "increased" <=> RGt(Delta(p), <<1, 2>>)
            /\ RecordedAction(p) = "decreased" <=> RLt(Delta(p), <<-1, 2>>)
            /\ RecordedAction(p) = "maintained" <=>
                   RLe(<<-1, 2>>, Delta(p)) /\ RLe(Delta(p), <<1, 2>>)

\* C15 witness: changes of exactly +0.5 and -0.5 kg recorded as maintained
\* and a change of +1.5 kg recorded as increased.
C15_Witness ==
    /\ \E p \in AuditPairs :
          Delta(p) = <<1, 2>> /\ IsGood(p) /\ RecordedAction(p) = "maintained"
    /\ \E p \in AuditPairs :
          /\ Delta(p) = <<-1, 2>>
          /\ IsGood(p) \/ IsMissed(p)
          /\ RecordedAction(p) = "maintained"
    /\ \E p \in AuditPairs :
          /\ Delta(p) = <<3, 2>>
          /\ IsGood(p) \/ IsMissed(p)
          /\ RecordedAction(p) = "increased"

\* C16: efficiency_score is within [0, 100], equals 100 x good / (good +
\* missed) when there is a scored transition and 0 when there is none, and
\* total_decisions = good + missed.
C16_Efficiency ==
    EvolutionDone =>
        \A e \in DOMAIN exercise_evolution :
            LET a == exercise_evolution[e]
                good == Len(a.good_decisions)
                missed == Len(a.missed_opportunities)
            IN  /\ RLe(I(0), a.efficiency_score)
                /\ RLe(a.efficiency_score, I(100))
                /\ a.total_decisions = good + missed
                /\ good + missed > 0 =>
                      a.efficiency_score = Rat(100 * good, good + missed)
                /\ good + missed = 0 => a.efficiency_score = I(0)

\* C16 witness: one good decision and two missed opportunities, score 100/3.
C16_Witness ==
    /\ EvolutionDone
    /\ \E e \in DOMAIN exercise_evolution :
          /\ Len(exercise_evolution[e].good_decisions) = 1
          /\ Len(exercise_evolution[e].missed_opportunities) = 2
          /\ exercise_evolution[e].efficiency_score = <<100, 3>>

(***************************************************************************)
(* Periodization                                                           *)
(***************************************************************************)
PeriodizationDone == pc \in {"evolution", "done"}

Names(list) == {list[i].name : i \in DOMAIN list}

\* C17 (as claimed): every exercise whose trend_change_pct is greater than
\* +2% is listed among the progressing exercises.
C17_TrendUpProgressing ==
    PeriodizationDone =>
        \A e \in DOMAIN progression_data :
            RGt(progression_data[e].trend_change_pct, I(2))
                => e \in Names(periodization.progressing_exercises)

\* C17 (amended): every exercise whose trend_change_pct is greater than +2%
\* is listed among the progressing exercises unless it is stagnant; a
\* stagnant one is listed among the plateaued exercises and not among the
\* progressing ones.  No other exercise is listed as progressing.
C17_ProgressingUnlessStagnant ==
    PeriodizationDone =>
        \A e \in DOMAIN progression_data :
            LET p == progression_data[e]
            IN  /\ e \in Names(periodization.progressing_exercises) <=>
                       RGt(p.trend_change_pct, I(2)) /\ ~p.is_stagnant
                /\ p.is_stagnant =>
                       e \in Names(periodization.plateaued_exercises)

\* C17 witness: a stagnant exercise with trend +20% listed as plateaued, an
\* exercise with trend +4.17% listed as progressing and one with trend
\* exactly +2% that is not.
C17_Witness ==
    /\ PeriodizationDone
    /\ \E e \in DOMAIN progression_data :
          /\ progression_data[e].is_stagnant
          /\ progression_data[e].trend_change_pct = I(20)
          /\ e \in Names(periodization.plateaued_exercises)
    /\ \E e \in DOMAIN progression_data :
          /\ progression_data[e].trend_change_pct = <<25, 6>>
          /\ e \in Names(periodization.progressing_exercises)
    /\ \E e \in DOMAIN progression_data :
          /\ progression_data[e].trend_change_pct = I(2)
          /\ e \notin Names(periodization.progressing_exercises)

\* 100 x stagnant / total, 0 without exercises
PlateauPct ==
    LET total == Cardinality(DOMAIN progression_data)
        stagnant == {e \in DOMAIN progression_data :
                        progression_data[e].is_stagnant}
    IN  IF total = 0 THEN I(0) ELSE Rat(100 * Cardinality(stagnant), total)

\* progressing + smart adjustments > plateaued + regressing
Ahead ==
    Len(periodization.progressing_exercises)
        + Len(periodization.smart_adjustments)
    > Len(periodization.plateaued_exercises)
        + Len(periodization.regressing_exercises)

\* C19: plateau_percentage is 100 x stagnant / total (0 without exercises);
\* the status is major plateau iff it is above 50, moderate plateau iff it
\* is above 30 and at most 50, and otherwise progressing well iff
\* progressing + smart adjustments > plateaued + regressing, else mixed.
C19_ProgramStatus ==
    PeriodizationDone =>
        /\ periodization.plateau_percentage = PlateauPct
        /\ Names(periodization.plateaued_exercises) =
               {e \in DOMAIN progression_data : progression_data[e].is_stagnant}
        /\ periodization.program_status = "Major Plateau" <=>
               RGt(PlateauPct, I(50))
        /\ periodization.program_status = "Moderate Plateau" <=>
               RGt(PlateauPct, I(30)) /\ RLe(PlateauPct, I(50))
        /\ periodization.program_status = "Progressing Well" <=>
               RLe(PlateauPct, I(30)) /\ Ahead
        /\ periodization.program_status = "Mixed Progress" <=>
               RLe(PlateauPct, I(30)) /\ ~Ahead

\* C19 witness: 3 stagnant exercises out of 10 (exactly 30%) with more
\* progressing than plateaued exercises: progressing well.
C19_Witness ==
    /\ PeriodizationDone
    /\ Cardinality(DOMAIN progression_data) = 10
    /\ periodization.plateau_percentage = I(30)
    /\ periodization.program_status = "Progressing Well"

\* the mean RPEs (those defined) of the 3 newest sessions of e, newest first
RecentRpeMeans(e) ==
    LET dates == SortedDesc(Newest(DatesOf(e), 3))
        means == [i \in DOMAIN dates |-> RpeMean(RowsOf(e, dates[i]))]
        defined == SelectSeq(means, LAMBDA x : ~IsNone(x))
    IN  [i \in DOMAIN defined |-> Val(defined[i])]

\* one session mean >= 9.5, or the mean of the defined session means >= 9.0
RpeJustified(e) ==
    LET means == RecentRpeMeans(e)
    IN  \/ \E i \in DOMAIN means : RGe(means[i], <<19, 2>>)
        \/ means # <<>> /\ RGe(RMean(means), I(9))

\* C18: a non-stagnant exercise whose trend_change_pct is below -2% is a
\* smart adjustment if one of its 3 newest sessions has mean RPE >= 9.5 or
\* the mean of the defined mean RPEs of those sessions is >= 9.0, and a true
\* regression otherwise; it is never listed as both.
C18_SmartOrRegression ==
    PeriodizationDone =>
        \A e \in DOMAIN progression_data :
            ~progression_data[e].is_stagnant
            /\ RLt(progression_data[e].trend_change_pct, I(-2))
            => /\ e \in Names(periodization.smart_adjustments)
                      <=> RpeJustified(e)
               /\ e \in Names(periodization.regressing_exercises)
                      <=> ~RpeJustified(e)

\* C18 failing input: sessions at 60, 60, 60 and 57.5 kg whose 3 newest have
\* the single-set RPEs 0, 9 and 9 (mean 6): listed as a smart adjustment.
C18_FailingInput ==
    /\ PeriodizationDone
    /\ "Squat (Barbell)" \in DOMAIN progression_data
    /\ RecentRpeMeans("Squat (Barbell)") = <<I(9), I(9), I(0)>>
    /\ RLt(progression_data["Squat (Barbell)"].trend_change_pct, I(-2))
    /\ "Squat (Barbell)" \in Names(periodization.smart_adjustments)

\* C18 without sessions whose mean RPE is 0: the classification of the claim.
C18_NoZeroMean ==
    PeriodizationDone =>
        \A e \in DOMAIN progression_data :
            ~progression_data[e].is_stagnant
            /\ RLt(progression_data[e].trend_change_pct, I(-2))
            /\ (\A i \in DOMAIN RecentRpeMeans(e) : RecentRpeMeans(e)[i] # I(0))
            => /\ e \in Names(periodization.smart_adjustments)
                      <=> RpeJustified(e)
               /\ e \in Names(periodization.regressing_exercises)
                      <=> ~RpeJustified(e)

(***************************************************************************)
(* Peak and final RPE of a summary                                         *)
(***************************************************************************)
\* the largest RPE recorded on the sets of a session
MaxRecorded(rows) ==
    CHOOSE v \in Recorded(rows) : \A u \in Recorded(rows) : RLe(u, v)

\* C20: in every session summary built, peak RPE >= final RPE >= 0 when
\* both are defined; peak RPE is the maximum of the RPEs recorded on the
\* sets and is undefined when no set has an RPE.
C20_PeakFinal ==
    \A j \in Judged :
        /\ ~IsNone(j.peak_rpe) /\ ~IsNone(j.final_rpe) =>
              RGe(Val(j.peak_rpe), Val(j.final_rpe))
              /\ RGe(Val(j.final_rpe), I(0))
        /\ j.peak_rpe = IF Recorded(j.rows) = {} THEN None
                        ELSE Some(MaxRecorded(j.rows))

\* C20 failing input: a session whose only set has the recorded RPE 0 gets a
\* summary without peak RPE.
C20_FailingInput ==
    \E j \in Judged :
        /\ Len(j.rows) = 1
        /\ j.rows[1].rpe = Some(I(0))
        /\ IsNone(j.peak_rpe)

\* the ordering part of C20 alone
C20_Ordering ==
    \A j \in Judged :
        ~IsNone(j.peak_rpe) /\ ~IsNone(j.final_rpe) =>
            RGe(Val(j.peak_rpe), Val(j.final_rpe))
            /\ RGe(Val(j.final_rpe), I(0))

(***************************************************************************)
(* Final RPE of a summary                                                  *)
(***************************************************************************)
\* C21: the final RPE of every session summary built is the RPE of the last
\* set of the session (highest set_index), so it is undefined when that set
\* has no RPE recorded, even if earlier sets have one.
C21_FinalRpeOfLastSet ==
    \A j \in Judged : j.final_rpe = j.rows[Len(j.rows)].rpe

\* C21 failing input: a two-set session whose first set has an RPE and whose
\* last set has none gets the RPE of the first set as its final RPE.
C21_FailingInput ==
    \E j \in Judged :
        /\ Len(j.rows) = 2
        /\ j.rows[1].rpe = Some(<<46, 5>>)
        /\ j.rows[1].set_index < j.rows[2].set_index
        /\ IsNone(j.rows[2].rpe)
        /\ j.final_rpe = Some(<<46, 5>>)

\* the final RPE the summaries carry: the last RPE that is recorded and not 0
C21_LastTruthy ==
    \A j \in Judged :
        LET kept == {i \in DOMAIN j.rows : Truthy(j.rows[i].rpe)}
        IN  j.final_rpe = IF kept = {} THEN None
                          ELSE j.rows[MaxInt(kept)].rpe

(***************************************************************************)
(* Total volume of a summary                                               *)
(***************************************************************************)
StatsDone == pc = "done" /\ stats # <<>>

\* the sum over the sets of weight x reps
SetSum(rows) == RSum([i \in DOMAIN rows |-> RMul(rows[i].weight, I(rows[i].reps))])

\* C22: every session summary computed carries the total volume that is the
\* sum over its sets of weight x reps, also when weights or reps differ
\* between the sets (checked on the table of latest_session_stats).
C22_VolumeIsSetSum ==
    StatsDone =>
        \A e \in DOMAIN stats :
            stats[e].total_volume = SetSum(RowsOf(e, stats[e].date))

\* C22 failing input: the sets 60 kg x 8 and 62.5 kg x 6 (855 kg in all) get
\* the total volume 61.2 x 14 = 856.8.
C22_FailingInput ==
    /\ StatsDone
    /\ \E e \in DOMAIN stats :
          LET rows == RowsOf(e, stats[e].date)
          IN  /\ Len(rows) = 2
              /\ rows[1].weight = I(60) /\ rows[1].reps = 8
              /\ rows[2].weight = <<125, 2>> /\ rows[2].reps = 6
              /\ SetSum(rows) = I(855)
              /\ stats[e].total_volume = <<4284, 5>>

\* the summaries of get_last_session_only do carry the sum over the sets
C22_LastSessionVolume ==
    \A i \in (IF LastDone /\ Len(df) > 0 THEN DOMAIN last_session.exercises ELSE {}) :
        last_session.exercises[i].total_volume =
            SetSum(RowsOf(last_session.exercises[i].name, last_session.date))

(***************************************************************************)
(* Normalisation: exclusion, retention, set records, invalid input         *)
(***************************************************************************)
\* the name contains an entry of the exclusion list, case-insensitively
ContainsExcluded(exercise) ==
    \E k \in DOMAIN EXCLUDED_EXERCISES :
        Contains(Lower(Chars(exercise)), Lower(EXCLUDED_EXERCISES[k]))

\* C23: the exclusion step drops every record whose exercise name contains
\* an entry of the exclusion list as a substring, case-insensitively, and
\* keeps every other record.
C23_SubstringExclusion ==
    [][pc = "filter_excluded_exercises" =>
          df' = SelectSeq(df, LAMBDA r : ~ContainsExcluded(r.exercise))]_vars

\* C23 failing input: a record of "Treadmill Walk" passes the exclusion step.
C23_FailingInput ==
    /\ pc = "progression"
    /\ \E i \in DOMAIN df : df[i].exercise = "Treadmill Walk"

\* what the step does: it drops the records whose lower-cased name equals a
\* lower-cased entry ("TREADMILL", "Treadmill") and keeps every other record
C23_ExactExclusion ==
    [][pc = "filter_excluded_exercises" =>
          df' = SelectSeq(df, LAMBDA r :
                    \A k \in DOMAIN EXCLUDED_EXERCISES :
                        Lower(Chars(r.exercise)) # Lower(EXCLUDED_EXERCISES[k]))]_vars

\* C24: after the retention step with a window of FilterDays days every
\* remaining record is dated inside [today - FilterDays, today]: older
\* records and records dated after now are dropped, and a record dated
\* exactly FilterDays calendar days before today is kept.
C24_RetentionWindow ==
    [][pc = "filter_recent_data" =>
          df' = SelectSeq(df, LAMBDA r :
                    now.date - FilterDays <= r.date /\ r.date <= now.date)]_vars

\* C24 failing input: a record dated the day after now passes the step.
C24_FailingInput ==
    /\ pc \in {"filter_excluded_exercises", "progression"}
    /\ \E i \in DOMAIN df : df[i].date > now.date

\* C24, second failing input: at 12:30 a record dated exactly FilterDays
\* calendar days before today is dropped.
C24_BoundaryDropped ==
    /\ pc = "filter_excluded_exercises"
    /\ now.seconds > 0
    /\ infile.events # <<>>
    /\ Get(infile.events[1], "type", "None") = "updated"
    /\ Get(infile.events[1].workout, "start_time", "") = "2025-03-12T06:00:00Z"
    /\ \A i \in DOMAIN df : df[i].date # now.date - FilterDays

\* what the step keeps: the records whose day begins at or after the instant
\* FilterDays days before now, with no upper limit
C24_LowerLimitOnly ==
    [][pc = "filter_recent_data" =>
          df' = SelectSeq(df, LAMBDA r :
                    r.date * 86400 >= (now.date - FilterDays) * 86400 + now.seconds)]_vars

\* the sets that are to give a record: <<i, j, k>> for set k of exercise j of
\* event i, the event being "updated" and the set "normal"
ProducingSets ==
    {t \in UNION {UNION {{<<i, j, k>> :
                            k \in DOMAIN infile.events[i].workout.exercises[j].sets} :
                         j \in DOMAIN infile.events[i].workout.exercises} :
                  i \in {n \in DOMAIN infile.events :
                            "workout" \in DOMAIN infile.events[n]}} :
        /\ infile.events[t[1]].type = "updated"
        /\ infile.events[t[1]].workout.exercises[t[2]].sets[t[3]].type = "normal"}

\* the record expected for such a set
ExpectedRecord(t) ==
    LET workout == infile.events[t[1]].workout
        s == workout.exercises[t[2]].sets[t[3]]
        present(key) == key \in DOMAIN s /\ ~IsNone(s[key])
    IN  [date |-> DateOf(fromisoformat(workout.start_time)),
         workout |-> workout.title,
         exercise |-> workout.exercises[t[2]].title,
         weight |-> IF present("weight_kg") THEN Val(s.weight_kg) ELSE I(0),
         reps |-> IF present("reps") THEN Val(s.reps) ELSE 0,
         rpe |-> IF present("rpe") THEN s.rpe ELSE None,
         set_index |-> s.index]

\* the number of rows of d equal to r
Copies(d, r) == Cardinality({i \in DOMAIN d : d[i] = r})

\* C25: when events_to_df returns, its rows are exactly the records of the
\* normal sets of the updated events, one per set, with weight 0 and reps 0
\* for a missing or null value and an undefined RPE for a missing one, in
\* the order of (date, exercise, set_index).
C25_SetRecords ==
    [][pc = "events_to_df" /\ outcome' \in {"running", "returned"} =>
          /\ Len(df') = Cardinality(ProducingSets)
          /\ \A t \in ProducingSets :
                Copies(df', ExpectedRecord(t)) =
                    Cardinality({u \in ProducingSets :
                                    ExpectedRecord(u) = ExpectedRecord(t)})
          /\ \A i, j \in DOMAIN df' :
                i < j =>
                    \/ df'[i].date < df'[j].date
                    \/ /\ df'[i].date = df'[j].date
                       /\ TitleIndex(df'[i].exercise) < TitleIndex(df'[j].exercise)
                    \/ /\ df'[i].date = df'[j].date
                       /\ df'[i].exercise = df'[j].exercise
                       /\ df'[i].set_index <= df'[j].set_index]_vars

\* C25 witness: a file whose first event is a walk of 9 June with a set that
\* names no weight, reps or RPE and whose second event is the squat workout
\* of 11 March (warm-up second, indices 2, 0, 1) has given three records.
C25_Witness ==
    /\ pc = "filter_recent_data"
    /\ Len(infile.events) = 2
    /\ \A i \in 1..2 : Get(infile.events[i], "type", "None") = "updated"
    /\ infile.events[1].workout.exercises[1].title = "Treadmill Walk"
    /\ Get(infile.events[2].workout, "start_time", "") = "2025-03-11T23:59:59Z"
    /\ infile.events[2].workout.exercises = <<SquatExercise>>
    /\ Len(df) = 3
    /\ df[1].exercise = "Squat (Barbell)" /\ df[1].set_index = 1
    /\ df[1].date = 70 /\ IsNone(df[1].rpe)
    /\ df[2].exercise = "Squat (Barbell)" /\ df[2].set_index = 2
    /\ df[3].exercise = "Treadmill Walk" /\ df[3].date = 160
    /\ df[3].weight = I(0) /\ df[3].reps = 0 /\ IsNone(df[3].rpe)

\* an updated event of the file holds a start time that is missing or does
\* not parse
UnparseableRecord ==
    \E i \in DOMAIN infile.events :
        /\ Get(infile.events[i], "type", "None") = "updated"
        /\ fromisoformat(Get(Get(infile.events[i], "workout", <<>>),
                             "start_time", "")) = <<>>

InvalidInput == infile.status # "ok" \/ UnparseableRecord

\* C26: for every invalid input (missing file, invalid JSON, unparseable
\* record) normalisation ends in the one fatal outcome of the printed error,
\* SystemExit(1), without output; a valid input that leaves no records ends
\* with a normal return and an empty result.
C26_InvalidInputOutcome ==
    pc # "events_to_df" =>
        /\ InvalidInput => outcome = "SystemExit(1)" /\ df = <<>>
        /\ ~InvalidInput /\ pc = "ended" => outcome = "returned" /\ df = <<>>

\* C26 failing input: a file whose only event is an updated workout without
\* start time ends in an uncaught ValueError.
C26_FailingInput ==
    /\ pc = "ended"
    /\ Len(infile.events) = 1
    /\ Get(infile.events[1], "type", "None") = "updated"
    /\ "start_time" \notin DOMAIN infile.events[1].workout
    /\ outcome = "ValueError"

\* the rest of C26: no invalid input gives output, a missing file and invalid
\* JSON end in SystemExit(1), and a valid input never ends in a failure
C26_Rest ==
    pc # "events_to_df" =>
        /\ InvalidInput => df = <<>> /\ pc = "ended"
        /\ infile.status # "ok" => outcome = "SystemExit(1)"
        /\ ~InvalidInput => outcome \in {"running", "returned"}
        /\ ~InvalidInput /\ pc = "ended" => outcome = "returned" /\ df = <<>>

(***************************************************************************)
(* Workout cycle                                                           *)
(***************************************************************************)
\* C27: when the logged workouts follow the configured cycle (training days
\* under the titles of ROUTINE_TITLE_MAPPING, rest days not logged or logged
\* under a title with a rest indicator), the workout predicted after every
\* logged workout is the cycle entry after the day just performed, index 0
\* following the last one.
C27_NextInCycle ==
    pc = "predicted" =>
        /\ next_workout_info.cycle_day_index = DayAfter(performed, config)
        /\ next_workout_info.workout_name =
               config.cycle_pattern[DayAfter(performed, config) + 1]

\* C27 failing input: with the cycle of routine_config.py, Day 6 (index 5)
\* logged under the title "Cardio" is followed by the prediction of index 3.
C27_FailingInput ==
    /\ pc = "predicted"
    /\ config = RoutineConfig
    /\ performed = 5
    /\ df[Len(df)].workout = "Cardio"
    /\ next_workout_info.cycle_day_index = 3

\* the part of C27 that holds: after a logged training day, and after a rest
\* day logged under the title of its own cycle entry, the prediction is the
\* entry after the day performed
C27_TrainingAndOwnTitle ==
    pc = "predicted" /\ df[Len(df)].workout \notin {"Rest", "Cardio"} =>
        /\ next_workout_info.cycle_day_index = DayAfter(performed, config)
        /\ next_workout_info.workout_name =
               config.cycle_pattern[DayAfter(performed, config) + 1]

\* C28: for every cycle pattern of length N >= 1 with valid indices and for
\* every log, determine_current_cycle_day returns an index in 0..N-1, so
\* get_next_workout_info does not index outside CYCLE_PATTERN.
C28_IndexInRange ==
    pc \in {"predicted", "ended"} =>
        /\ determine_current_cycle_day(df, config) \in
               0..(Len(config.cycle_pattern) - 1)
        /\ outcome # "IndexError"

\* C28 failing input: with the three-day cycle a log whose last workout is
\* titled "Cardio" gives the index 3 and an IndexError.
C28_FailingInput ==
    /\ pc = "ended"
    /\ config = ThreeDayConfig
    /\ Len(df) = 1
    /\ df[1].workout = "Cardio"
    /\ determine_current_cycle_day(df, config) = 3
    /\ outcome = "IndexError"

\* with the cycle of routine_config.py, which has rest days, the index is in
\* range for every log
C28_RoutineConfigInRange ==
    pc \in {"predicted", "ended"} /\ config = RoutineConfig =>
        /\ determine_current_cycle_day(df, config) \in 0..5
        /\ outcome # "IndexError"

(***************************************************************************)
(* The two verdict implementations                                         *)
(***************************************************************************)
\* C29: for every session the verdict class the audit of
\* analyze_exercise_evolution assigns is the class get_last_session_only
\* assigns to the same session.
C29_SameVerdictClass ==
    \A j1, j2 \in Judged :
        j1.by = "last_session" /\ j2.by = "evolution"
        /\ j1.name = j2.name /\ j1.rows = j2.rows
            => j1.class = j2.class

\* C29 witness: both analyses judged the same session, whose peak RPE 9.2
\* lies above 9.0 and whose final RPE 9.2 makes it optimal.
C29_Witness ==
    \E j1, j2 \in Judged :
        /\ j1.by = "last_session" /\ j2.by = "evolution"
        /\ j1.name = j2.name /\ j1.rows = j2.rows
        /\ j1.peak_rpe = Some(<<46, 5>>) /\ j1.final_rpe = Some(<<46, 5>>)
        /\ j1.class = "optimal" /\ j2.class = "optimal"

(***************************************************************************)
(* Paginated fetch                                                         *)
(***************************************************************************)
\* the events of page p and whether the loop stops at it
EventsOf(p) == Get(server[p].body, "events", <<>>)
PageCountOf(p) ==
    IF "page_count" \in DOMAIN server[p].body THEN server[p].body.page_count
    ELSE 1
StopsAt(p) == EventsOf(p) = <<>> \/ p >= PageCountOf(p)

\* the pages requested are 1, 2, 3, ... without gap or repetition; no
\* requested page before the last one stops the loop; the list returned is
\* the concatenation in page order of the events of the pages fetched, and
\* the return happens at the first page that stops the loop
C30_Pages ==
    /\ requested = [i \in 1..Len(requested) |-> i]
    /\ pc = "fetch" => page = Len(requested) + 1
    /\ \A p \in 1..(Len(requested) - 1) :
          server[p].status = "ok" /\ ~StopsAt(p)
    /\ pc = "fetch" /\ requested # <<>> =>
          server[Len(requested)].status = "ok" /\ ~StopsAt(Len(requested))
    /\ pc = "fetched" =>
          /\ server[Len(requested)].status = "ok"
          /\ StopsAt(Len(requested))
          /\ all_events = Concat([p \in 1..Len(requested) |-> EventsOf(p)])

\* C30: get_all_recent_workouts requests the pages 1, 2, 3, ... in order,
\* stops at the first page that is empty or whose number is >= the
\* page_count reported with it (1 when absent), terminates, and returns the
\* concatenation in page order of the events of the pages it fetched.
C30_PaginatedFetch == []C30_Pages /\ <>(pc \in {"fetched", "ended"})

\* C30 witness: three pages were requested and the events of all three were
\* returned.
C30_Witness ==
    /\ pc = "fetched"
    /\ requested = <<1, 2, 3>>
    /\ Len(EventsOf(1)) = 2 /\ Len(EventsOf(2)) = 1 /\ Len(EventsOf(3)) = 2
    /\ "page_count" \notin DOMAIN server[3].body
    /\ Len(all_events) = 5
    /\ all_events[3].id = <<2, 1>>

====
